---- MODULE Spec2Model ----
(***************************************************************************)
(* Model of the lunatic plugin subsystem: the plugin registry              *)
(* (crates/lunatic-plugin/src/lib.rs), the module-transform pipeline       *)
(* (PluginRegistry::transform_module), the lifecycle dispatcher            *)
(* (crates/lunatic-plugin/src/lifecycle.rs), the module editor             *)
(* (crates/lunatic-plugin/src/module_context.rs) and the process message   *)
(* (crates/lunatic-process/src/message.rs).                                *)
(*                                                                         *)
(* The wasm engine is an external collaborator: a compiled module is       *)
(* represented by what instantiating and calling it does (its imports,     *)
(* its exported memory, its exports and the host calls their bodies make). *)
(***************************************************************************)
EXTENDS Integers, Sequences, FiniteSets, TLC

VARIABLES
    plugins,                  \* PluginRegistry.plugins: name -> Arc<Plugin>
    module_transform_plugins, \* PluginRegistry.module_transform_plugins
    host_function_plugins,    \* PluginRegistry.host_function_plugins: ns -> Vec
    lifecycle_plugins,        \* PluginRegistry.lifecycle_plugins
    dispatcher_plugins,       \* PluginRegistry.lifecycle_dispatcher.plugins
    next_id,                  \* number of Arc<Plugin> allocated so far (Arc identity)
    last_call,                \* the last registry call and what it returned
    t_pc,                     \* position of the caller inside transform_module
    module_bytes,             \* transform_module's argument
    current_bytes,            \* transform_module's local current_bytes
    t_idx,                    \* index of the next plugin of the for loop
    t_result,                 \* what transform_module returned
    t_trace,                  \* the passes made by the call, in order
    t_earlier,                \* transform_module returned before on this registry
    d_pc,                     \* position of the caller inside dispatch
    event,                    \* dispatch's argument
    d_idx,                    \* index of the next plugin of dispatch's for loop
    d_trace,                  \* the attempts made by the call, in order
    d_earlier,                \* dispatch returned before on this dispatcher
    h_pc,                     \* position of a plugin inside one transform pass
    h_store,                  \* the pass's store: PluginHostState and memory
    h_call,                   \* the last host function the plugin called
    h_pass,                   \* what the pass handed back to transform_module
    message,                  \* a DataMessage: tag, read_ptr, buffer, resources
    io,                       \* the last DataMessage operation and its result
    log,                      \* what was done with the DataMessage's resources
    mc_module,                \* the wasm binary given to ModuleContext::new
    mc_ctx,                   \* the ModuleContext, or the error new returned
    mc_call,                  \* the last ModuleContext call and what it returned
    mc_output,                \* the binary encode returned, if it was called
    mc_reparsed,              \* ModuleContext::new of that binary, if called
    sdk                       \* the last call of a pure function and its result

regVars == <<plugins, module_transform_plugins, host_function_plugins,
             lifecycle_plugins, dispatcher_plugins>>
callVars == <<next_id, last_call>>
transformVars == <<t_pc, module_bytes, current_bytes, t_idx, t_result, t_trace,
                   t_earlier>>
dispatchVars == <<d_pc, event, d_idx, d_trace, d_earlier>>
hostVars == <<h_pc, h_store, h_call, h_pass>>
messageVars == <<message, io, log>>
contextVars == <<mc_module, mc_ctx, mc_call, mc_output, mc_reparsed>>
sdkVars == <<sdk>>
vars == <<plugins, module_transform_plugins, host_function_plugins,
          lifecycle_plugins, dispatcher_plugins, next_id, last_call,
          t_pc, module_bytes, current_bytes, t_idx, t_result, t_trace,
          t_earlier, d_pc, event, d_idx, d_trace, d_earlier, h_pc, h_store, h_call, h_pass,
          message, io, log,
          mc_module, mc_ctx, mc_call, mc_output, mc_reparsed, sdk>>

----------------------------------------------------------------------------
(* Bounds *)

\* successful registrations per behaviour of the registry specification
MaxRegs == 3

\* transform plugins registered per behaviour of the transform specification
MaxChain == 2

\* lifecycle plugins registered per behaviour of the lifecycle specification
MaxObservers == 2

\* longest module handed to transform_module
MaxInput == 2

\* byte values are 0..MaxByte
MaxByte == 1

\* bytes of one page of plugin memory (65536 in the engine)
PageSize == 4

\* width of the wasm i32 (32 in the engine); usize is twice as wide
I32Bits == 4

\* most bytes in the buffer of a DataMessage
MaxMessage == 2

\* most resource slots of a DataMessage
MaxResources == 2

\* most types, most functions and most exports added to one ModuleContext
MaxAdded == 1

\* the integers -MaxSmall..MaxSmall are among the values given to the encoders
MaxSmall == 130

\* iterations of an encoder's loop that are followed
MaxIterations == 8

\* longest namespace given to the namespace filter
MaxName == 4

----------------------------------------------------------------------------
(* Capabilities and plugin descriptors *)

Cap(kind, arg) == [kind |-> kind, arg |-> arg]
ModuleTransform == Cap("ModuleTransform", "")
HostFunctions(ns) == Cap("HostFunctions", ns)
LifecycleHooks == Cap("LifecycleHooks", "")
Networking == Cap("Networking", "")
Filesystem == Cap("Filesystem", "/tmp")
ProcessSpawn == Cap("ProcessSpawn", "")

PluginInfo(name, caps) == [name |-> name, capabilities |-> caps]

\* a Plugin behind a fresh Arc; id is the identity of the allocation
Plugin(id, info, module) == [id |-> id, info |-> info, module |-> module]

\* number of elements of the sequence s that equal x
RECURSIVE Count(_, _)
Count(s, x) ==
    IF s = <<>> THEN 0
    ELSE (IF Head(s) = x THEN 1 ELSE 0) + Count(Tail(s), x)

\* the sequence of n copies of x
RECURSIVE Repeat(_, _)
Repeat(x, n) == IF n = 0 THEN <<>> ELSE <<x>> \o Repeat(x, n - 1)

Range(s) == {s[i] : i \in DOMAIN s}

----------------------------------------------------------------------------
(* Plugin registry *)

Registry(p, mt, hf, lp, dp) ==
    [plugins |-> p, module_transform_plugins |-> mt,
     host_function_plugins |-> hf, lifecycle_plugins |-> lp,
     dispatcher_plugins |-> dp]

CurrentRegistry ==
    Registry(plugins, module_transform_plugins, host_function_plugins,
             lifecycle_plugins, dispatcher_plugins)

\* HashMap::insert: the entry of an existing key is replaced
MapInsert(map, key, value) ==
    [k \in (DOMAIN map) \cup {key} |-> IF k = key THEN value ELSE map[k]]

\* HashMap::entry(key).or_default().push(value)
MapPush(map, key, value) ==
    IF key \in DOMAIN map
    THEN [map EXCEPT ![key] = Append(@, value)]
    ELSE MapInsert(map, key, <<value>>)

\* LifecycleDispatcher::add_plugin
add_plugin(dp, plugin) == Append(dp, plugin)

\* a routing that also indexes Networking plugins as transforms
RouteCapabilityNet(reg, plugin, cap) ==
    CASE cap.kind \in {"ModuleTransform", "Networking"} ->
            [reg EXCEPT !.module_transform_plugins = Append(@, plugin)]
      [] cap.kind = "HostFunctions" ->
            [reg EXCEPT !.host_function_plugins = MapPush(@, cap.arg, plugin)]
      [] cap.kind = "LifecycleHooks" ->
            [reg EXCEPT !.lifecycle_plugins = Append(@, plugin),
                        !.dispatcher_plugins = add_plugin(@, plugin)]
      [] OTHER -> reg

\* the match of register's for loop, for one capability
RouteCapability(reg, plugin, cap) ==
    CASE cap.kind = "ModuleTransform" ->
            [reg EXCEPT !.module_transform_plugins = Append(@, plugin)]
      [] cap.kind = "HostFunctions" ->
            [reg EXCEPT !.host_function_plugins = MapPush(@, cap.arg, plugin)]
      [] cap.kind = "LifecycleHooks" ->
            [reg EXCEPT !.lifecycle_plugins = Append(@, plugin),
                        !.dispatcher_plugins = add_plugin(@, plugin)]
      [] OTHER -> reg

\* register's for loop over plugin.info.capabilities
RECURSIVE RouteCapabilities(_, _, _)
RouteCapabilities(reg, plugin, caps) ==
    IF caps = <<>> THEN reg
    ELSE RouteCapabilities(RouteCapability(reg, plugin, Head(caps)),
                           plugin, Tail(caps))

\* the plugins of the sequence s that are not called name
NotNamed(s, name) == SelectSeq(s, LAMBDA p : p.info.name # name)

\* a register that first takes the earlier plugin of the same name out of
\* every index
RegisterResultReindexing(reg, plugin) ==
    LET name == plugin.info.name
        cleaned ==
            [reg EXCEPT
                !.module_transform_plugins = NotNamed(@, name),
                !.lifecycle_plugins = NotNamed(@, name),
                !.dispatcher_plugins = NotNamed(@, name),
                !.host_function_plugins =
                    [ns \in DOMAIN reg.host_function_plugins |->
                        NotNamed(reg.host_function_plugins[ns], name)]]
        routed == RouteCapabilities(cleaned, plugin, plugin.info.capabilities)
    IN [routed EXCEPT !.plugins = MapInsert(@, name, plugin)]

\* PluginRegistry::register: the registry after the call (it always returns Ok)
RegisterResult(reg, plugin) ==
    LET routed == RouteCapabilities(reg, plugin, plugin.info.capabilities)
    IN [routed EXCEPT !.plugins = MapInsert(@, plugin.info.name, plugin)]

\* Module::new of the engine: bytes that are not a wasm module do not compile
ModuleNew(wasm) ==
    IF wasm.valid THEN [ok |-> TRUE, module |-> wasm.module]
    ELSE [ok |-> FALSE, module |-> "none"]

\* a register_wasm that registers the plugin before looking at the compile result
RegisterWasmResultEager(reg, id, info, wasm) ==
    LET compiled == ModuleNew(wasm)
    IN [ok |-> compiled.ok,
        reg |-> RegisterResult(reg, Plugin(id, info, compiled.module))]

\* PluginRegistry::register_wasm: whether it returned Ok, and the registry after
RegisterWasmResult(reg, id, info, wasm) ==
    LET compiled == ModuleNew(wasm)
    IN IF compiled.ok
       THEN [ok |-> TRUE,
             reg |-> RegisterResult(reg, Plugin(id, info, compiled.module))]
       ELSE [ok |-> FALSE, reg |-> reg]

\* PluginRegistry::get
get(name) == IF name \in DOMAIN plugins THEN <<plugins[name]>> ELSE <<>>

\* PluginRegistry::len
len == Cardinality(DOMAIN plugins)

\* PluginRegistry::is_empty
is_empty == DOMAIN plugins = {}

StoreRegistry(reg) ==
    /\ plugins' = reg.plugins
    /\ module_transform_plugins' = reg.module_transform_plugins
    /\ host_function_plugins' = reg.host_function_plugins
    /\ lifecycle_plugins' = reg.lifecycle_plugins
    /\ dispatcher_plugins' = reg.dispatcher_plugins

NoEvent == [kind |-> "none", process_id |-> 0, module_name |-> <<>>, error |-> FALSE]

Call(op, info, ok) == [op |-> op, info |-> info, ok |-> ok]

\* the caller is not inside transform_module or dispatch (register needs &mut self)
NoCallInProgress == t_pc \in {"idle", "returned"} /\ d_pc \in {"idle", "returned"}

\* values the caller got from an earlier transform_module or dispatch are dropped
ForgetCalls ==
    /\ t_pc' = "idle" /\ module_bytes' = <<>> /\ current_bytes' = <<>>
    /\ t_idx' = 0 /\ t_result' = [ok |-> TRUE, bytes |-> <<>>] /\ t_trace' = <<>>
    /\ t_earlier' = FALSE
    /\ d_pc' = "idle" /\ event' = NoEvent
    /\ d_idx' = 0 /\ d_trace' = <<>> /\ d_earlier' = FALSE

\* registry.register(plugin)
Register(info, module, limit) ==
    /\ NoCallInProgress
    /\ next_id < limit
    /\ StoreRegistry(RegisterResult(CurrentRegistry, Plugin(next_id, info, module)))
    /\ next_id' = next_id + 1
    /\ last_call' = Call("register", info, TRUE)
    /\ ForgetCalls
    /\ UNCHANGED <<hostVars, messageVars, contextVars, sdkVars>>

\* registry.register_wasm(info, wasm)
RegisterWasm(info, wasm, limit) ==
    LET res == RegisterWasmResult(CurrentRegistry, next_id, info, wasm)
    IN /\ NoCallInProgress
       /\ next_id < limit
       /\ StoreRegistry(res.reg)
       /\ next_id' = IF ModuleNew(wasm).ok THEN next_id + 1 ELSE next_id
       /\ last_call' = Call("register_wasm", info, res.ok)
       /\ ForgetCalls
       /\ UNCHANGED <<hostVars, messageVars, contextVars, sdkVars>>

----------------------------------------------------------------------------
(* Integers of the host ABI *)

RECURSIVE Pow2(_)
Pow2(n) == IF n = 0 THEN 1 ELSE 2 * Pow2(n - 1)

I32Max == Pow2(I32Bits - 1) - 1
UsizeMax == Pow2(2 * I32Bits) - 1

\* `n as i32` of a usize: the low bits, read as two's complement
AsI32(n) ==
    LET m == n % Pow2(I32Bits)
    IN IF m > I32Max THEN m - Pow2(I32Bits) ELSE m

\* a conversion that takes a negative i32 for zero
AsUsizeSaturating(i) == IF i < 0 THEN 0 ELSE i

\* `i as usize` of an i32: sign extension
AsUsize(i) == IF i < 0 THEN Pow2(2 * I32Bits) + i ELSE i

\* i32.add of the plugin's code
I32Add(a, b) == AsI32((a + b) % Pow2(I32Bits))

\* usize::checked_add(a, b).is_some_and(|end| end <= limit)
CheckedAddWithin(a, b, limit) == a + b <= UsizeMax /\ a + b <= limit

----------------------------------------------------------------------------
(* Compiled plugin modules *)

HostAbi == {"lunatic_plugin::input_size", "lunatic_plugin::read_input",
            "lunatic_plugin::write_output"}

TransformExport == "lunatic_transform_module"

HookExports ==
    {"lunatic_on_process_spawning", "lunatic_on_process_spawned",
     "lunatic_on_process_exiting", "lunatic_on_process_exited",
     "lunatic_on_module_loading", "lunatic_on_module_loaded"}

Ins(op, a, b, rel) == [op |-> op, a |-> a, b |-> b, rel |-> rel]

WasmModule(imports, start_traps, has_memory, pages, exports) ==
    [imports |-> imports, start_traps |-> start_traps,
     has_memory |-> has_memory, pages |-> pages, exports |-> exports]

\* the modules plugins are compiled from, by key
Module(key) ==
    CASE key = "empty" ->           \* (module)
            WasmModule({}, FALSE, FALSE, 0, <<>>)
      [] key = "memory_only" ->     \* (module (memory (export "memory") 1))
            WasmModule({}, FALSE, TRUE, 1, <<>>)
      [] key = "noop" ->
            WasmModule(HostAbi, FALSE, TRUE, 1, (TransformExport :> <<>>))
      [] key = "passthrough" ->
            WasmModule(HostAbi, FALSE, TRUE, 1, (TransformExport :>
                <<Ins("input_size", 0, 0, FALSE),
                  Ins("read_input", 0, 0, FALSE),
                  Ins("write_output", 0, 0, TRUE)>>))
      [] key = "append" ->
            WasmModule(HostAbi, FALSE, TRUE, 1, (TransformExport :>
                <<Ins("input_size", 0, 0, FALSE),
                  Ins("read_input", 0, 0, FALSE),
                  Ins("store8", 0, MaxByte, TRUE),
                  Ins("write_output", 0, 1, TRUE)>>))
      [] key = "prepend" ->
            WasmModule(HostAbi, FALSE, TRUE, 1, (TransformExport :>
                <<Ins("input_size", 0, 0, FALSE),
                  Ins("store8", 0, 0, FALSE),
                  Ins("read_input", 1, 0, FALSE),
                  Ins("write_output", 0, 1, TRUE)>>))
      [] key = "trap" ->
            WasmModule(HostAbi, FALSE, TRUE, 1, (TransformExport :>
                <<Ins("unreachable", 0, 0, FALSE)>>))
      [] key = "oob" ->
            WasmModule(HostAbi, FALSE, TRUE, 1, (TransformExport :>
                <<Ins("write_output", PageSize + 1, 1, FALSE)>>))
      [] key = "write_then_trap" ->
            WasmModule(HostAbi, FALSE, TRUE, 1, (TransformExport :>
                <<Ins("input_size", 0, 0, FALSE),
                  Ins("read_input", 0, 0, FALSE),
                  Ins("write_output", 0, 0, TRUE),
                  Ins("unreachable", 0, 0, FALSE)>>))
      [] key = "erase" ->           \* writes an output of no bytes
            WasmModule(HostAbi, FALSE, TRUE, 1, (TransformExport :>
                <<Ins("write_output", 0, 0, FALSE)>>))
      [] key = "bad_import" ->
            WasmModule({"env::log"}, FALSE, TRUE, 1, (TransformExport :> <<>>))
      [] key = "observer" ->        \* every hook, with memory
            WasmModule({}, FALSE, TRUE, 1,
                [e \in HookExports |-> <<Ins("store8", PageSize - 1, 1, FALSE)>>])
      [] key = "spawned_only" ->    \* one hook, no memory
            WasmModule({}, FALSE, FALSE, 0,
                ("lunatic_on_process_spawned" :> <<>>))
      [] key = "trap_hook" ->       \* every hook is `unreachable`
            WasmModule({}, FALSE, TRUE, 1,
                [e \in HookExports |-> <<Ins("unreachable", 0, 0, FALSE)>>])
      [] key = "no_memory" ->       \* every hook, no memory
            WasmModule({}, FALSE, FALSE, 0, [e \in HookExports |-> <<>>])
      [] key = "dual" ->            \* hooks and the transform export, host imports
            WasmModule(HostAbi, FALSE, TRUE, 1,
                [e \in {"lunatic_on_process_spawned", TransformExport} |->
                    IF e = TransformExport
                    THEN <<Ins("input_size", 0, 0, FALSE),
                           Ins("store8", 0, 0, FALSE),
                           Ins("read_input", 1, 0, FALSE),
                           Ins("write_output", 0, 1, TRUE)>>
                    ELSE <<Ins("store8", 0, 1, FALSE)>>])
      [] key = "start_trap" ->      \* the start function traps
            WasmModule({}, TRUE, TRUE, 1, [e \in HookExports |-> <<>>])

----------------------------------------------------------------------------
(* Host ABI of a transform pass *)

\* a store whose output buffer is the one the previous pass of the call left
NewStoreKeepsOutput(module, input) ==
    [input_bytes |-> input,
     output_bytes |-> IF t_trace = <<>> THEN <<>> ELSE t_trace[Len(t_trace)].output,
     has_memory |-> module.has_memory,
     memory |-> Repeat(0, module.pages * PageSize),
     size |-> 0, writes |-> 0, status |-> "ok"]

\* a store whose instance keeps the memory the previous attempt of the
\* dispatch left behind
NewStoreKeepsMemory(module, input) ==
    [input_bytes |-> input, output_bytes |-> <<>>,
     has_memory |-> module.has_memory,
     memory |-> IF /\ d_trace # <<>>
                   /\ Len(d_trace[Len(d_trace)].left) = module.pages * PageSize
                THEN d_trace[Len(d_trace)].left
                ELSE Repeat(0, module.pages * PageSize),
     size |-> 0, writes |-> 0, status |-> "ok"]

\* Store::new(engine, PluginHostState { input_bytes, output_bytes: Vec::new() })
\* with the instance's memory, zero-initialised
NewStore(module, input) ==
    [input_bytes |-> input, output_bytes |-> <<>>,
     has_memory |-> module.has_memory,
     memory |-> Repeat(0, module.pages * PageSize),
     size |-> 0, writes |-> 0, status |-> "ok"]

\* lunatic_plugin::input_size
input_size(store) == AsI32(Len(store.input_bytes))

\* Memory::write(offset, buffer)
MemoryWrite(memory, offset, buffer) ==
    IF offset <= Len(memory) /\ Len(buffer) <= Len(memory) - offset
    THEN [ok |-> TRUE,
          memory |-> [i \in 1..Len(memory) |->
                        IF i > offset /\ i <= offset + Len(buffer)
                        THEN buffer[i - offset] ELSE memory[i]]]
    ELSE [ok |-> FALSE, memory |-> memory]

\* lunatic_plugin::read_input
read_input(store, dest_ptr) ==
    IF ~store.has_memory THEN [store EXCEPT !.status = "host_error"]
    ELSE LET w == MemoryWrite(store.memory, AsUsize(dest_ptr), store.input_bytes)
         IN IF w.ok THEN [store EXCEPT !.memory = w.memory]
            ELSE [store EXCEPT !.status = "host_error"]

\* a write_output that appends to the output buffer
write_output_appending(store, src_ptr, length) ==
    IF ~store.has_memory THEN [store EXCEPT !.status = "host_error"]
    ELSE LET src == AsUsize(src_ptr)
             size == AsUsize(length)
         IN IF CheckedAddWithin(src, size, Len(store.memory))
            THEN [store EXCEPT !.output_bytes = @ \o SubSeq(store.memory, src + 1, src + size),
                               !.writes = @ + 1]
            ELSE [store EXCEPT !.status = "host_error"]

\* lunatic_plugin::write_output
write_output(store, src_ptr, length) ==
    IF ~store.has_memory THEN [store EXCEPT !.status = "host_error"]
    ELSE LET src == AsUsize(src_ptr)
             size == AsUsize(length)
         IN IF CheckedAddWithin(src, size, Len(store.memory))
            THEN [store EXCEPT !.output_bytes = SubSeq(store.memory, src + 1, src + size),
                               !.writes = @ + 1]
            ELSE [store EXCEPT !.status = "host_error"]

\* one instruction of a plugin function body
Step(store, ins) ==
    LET operand == IF ins.rel THEN I32Add(ins.b, store.size) ELSE ins.b
        address == IF ins.rel THEN I32Add(ins.a, store.size) ELSE ins.a
    IN CASE ins.op = "input_size" -> [store EXCEPT !.size = input_size(store)]
         [] ins.op = "read_input" -> read_input(store, ins.a)
         [] ins.op = "write_output" -> write_output(store, ins.a, operand)
         [] ins.op = "store8" ->
                IF address >= 0 /\ address < Len(store.memory)
                THEN [store EXCEPT !.memory[address + 1] = ins.b]
                ELSE [store EXCEPT !.status = "trap"]
         [] ins.op = "unreachable" -> [store EXCEPT !.status = "trap"]

\* Func::call: the body runs until it returns, traps or a host function fails
RECURSIVE Exec(_, _)
Exec(store, body) ==
    IF body = <<>> \/ store.status # "ok" THEN store
    ELSE Exec(Step(store, Head(body)), Tail(body))

\* Linker::instantiate: every import must be defined by the linker, and the
\* start function must not trap
Instantiates(module, linker) ==
    module.imports \subseteq linker /\ ~module.start_traps

\* Instance::get_func
get_func(module, name) ==
    IF name \in DOMAIN module.exports THEN <<module.exports[name]>> ELSE <<>>

----------------------------------------------------------------------------
(* Module-transform pipeline *)

\* the linker of a transform pass defines the three host functions
TransformLinker == HostAbi

\* what one pass did: writes counts the successful write_output calls
Pass(ok, outcome, output, writes, after) ==
    [ok |-> ok, outcome |-> outcome, output |-> output, writes |-> writes,
     after |-> after]

\* input_bytes of the pass's PluginHostState: current_bytes.clone()
PassInput(module_bytes_, current_bytes_) == current_bytes_

\* a rule that takes the output buffer even when it is empty
PassthroughAlwaysOutput(current, output) == output

\* if !output.is_empty() { current_bytes = output.clone() }
Passthrough(current, output) == IF output # <<>> THEN output ELSE current

\* a pipeline that fails on a plugin without the export
NoExportPassFails(current) == Pass(FALSE, "skipped", <<>>, 0, current)

\* the else branch of `if let Some(func)`: a warning, the bytes are kept
NoExportPass(current) == Pass(TRUE, "skipped", <<>>, 0, current)

\* a loop body that takes the output buffer as the new bytes whenever the
\* plugin wrote to it
CallResultTakesWritten(store, current) ==
    IF store.status # "ok"
    THEN Pass(FALSE, store.status, store.output_bytes, store.writes, current)
    ELSE Pass(TRUE, "returned", store.output_bytes, store.writes,
              IF store.writes > 0 THEN store.output_bytes ELSE current)

\* func.call(&mut store, &[], &mut [])? and the use of output_bytes after it
CallResult(store, current) ==
    IF store.status # "ok"
    THEN Pass(FALSE, store.status, store.output_bytes, store.writes, current)
    ELSE Pass(TRUE, "returned", store.output_bytes, store.writes,
              Passthrough(current, store.output_bytes))

\* a loop body that skips a plugin it cannot instantiate, with a warning
TransformPassSkipsUninstantiable(plugin, input, current) ==
    LET module == Module(plugin.module)
        func == get_func(module, TransformExport)
        store == Exec(NewStore(module, input), func[1])
    IN IF ~Instantiates(module, TransformLinker)
       THEN Pass(TRUE, "instantiate_failed", <<>>, 0, current)
       ELSE IF func = <<>>
       THEN NoExportPass(current)
       ELSE CallResult(store, current)

\* the body of transform_module's for loop for one plugin
TransformPass(plugin, input, current) ==
    LET module == Module(plugin.module)
        func == get_func(module, TransformExport)
        store == Exec(NewStore(module, input), func[1])
    IN IF ~Instantiates(module, TransformLinker)
       THEN Pass(FALSE, "instantiate_failed", <<>>, 0, current)
       ELSE IF func = <<>>
       THEN NoExportPass(current)
       ELSE CallResult(store, current)

\* a loop that logs the error of a pass and goes on
PropagatesNever(pass) == FALSE

\* the ? operators of the loop body: an error leaves transform_module
Propagates(pass) == ~pass.ok

\* a loop that walks the transform list backwards
PluginAtReversed(list, i) == list[Len(list) + 1 - i]

\* the i-th iteration of `for plugin in &self.module_transform_plugins`
PluginAt(list, i) == list[i]

Ok(bytes) == [ok |-> TRUE, bytes |-> bytes]
Err == [ok |-> FALSE, bytes |-> <<>>]

\* a pass as observed: fresh is the store the pass started from
TraceEntry(plugin, input, pass) ==
    [plugin |-> plugin, input |-> input, outcome |-> pass.outcome,
     output |-> pass.output, writes |-> pass.writes, after |-> pass.after,
     fresh |-> NewStore(Module(plugin.module), input)]

\* registry.transform_module(bytes): up to the first iteration of the loop
TransformStart(bytes) ==
    /\ NoCallInProgress
    /\ module_bytes' = bytes
    /\ t_trace' = <<>>
    /\ t_earlier' = (t_pc = "returned")
    /\ IF module_transform_plugins = <<>>
       THEN /\ t_pc' = "returned"
            /\ t_result' = Ok(bytes)
            /\ current_bytes' = <<>>
            /\ t_idx' = 0
       ELSE /\ t_pc' = "loop"
            /\ t_result' = Ok(<<>>)
            /\ current_bytes' = bytes
            /\ t_idx' = 1
    /\ UNCHANGED <<regVars, callVars, hostVars, messageVars, contextVars, sdkVars, dispatchVars>>

\* one iteration of transform_module's loop
TransformStep ==
    /\ t_pc = "loop"
    /\ t_idx <= Len(module_transform_plugins)
    /\ LET plugin == PluginAt(module_transform_plugins, t_idx)
           input == PassInput(module_bytes, current_bytes)
           pass == TransformPass(plugin, input, current_bytes)
       IN /\ t_trace' = Append(t_trace, TraceEntry(plugin, input, pass))
          /\ IF Propagates(pass)
             THEN /\ t_pc' = "returned"
                  /\ t_result' = Err
                  /\ UNCHANGED <<current_bytes, t_idx>>
             ELSE /\ current_bytes' = pass.after
                  /\ t_idx' = t_idx + 1
                  /\ UNCHANGED <<t_pc, t_result>>
    /\ UNCHANGED <<regVars, callVars, hostVars, messageVars, contextVars, sdkVars, module_bytes, t_earlier,
                   dispatchVars>>

\* Ok(current_bytes) after the loop
TransformReturn ==
    /\ t_pc = "loop"
    /\ t_idx > Len(module_transform_plugins)
    /\ t_pc' = "returned"
    /\ t_result' = Ok(current_bytes)
    /\ UNCHANGED <<regVars, callVars, hostVars, messageVars, contextVars, sdkVars, module_bytes,
                   current_bytes, t_idx, t_trace, t_earlier, dispatchVars>>

----------------------------------------------------------------------------
(* One transform pass seen from the host functions: the plugin is any     *)
(* module that instantiates under the transform linker and exports the    *)
(* transform function, and its body is whatever host calls it makes       *)

\* the values of a wasm i32
I32 == -(I32Max + 1) .. I32Max

AnyPlugin(has_memory, pages) ==
    WasmModule(HostAbi, FALSE, has_memory, pages, (TransformExport :> <<>>))

NoPass == Pass(TRUE, "none", <<>>, 0, <<>>)

\* the plugin called fn(a, b), which returned ret (ok) or an error
HostCall(fn, a, b, ret, ok) ==
    [fn |-> fn, a |-> a, b |-> b, ret |-> ret, ok |-> ok]

NoHostCall == HostCall("none", 0, 0, 0, TRUE)

\* the plugin's function is running its own code: no host function has
\* returned an error, which ends the call
Running == h_pc = "running" /\ h_store.status = "ok" /\ h_call.fn = "none"

\* iteration of the loop up to func.call: a fresh store for the plugin
HostPassStart(module, input) ==
    /\ h_pc \in {"idle", "done"}
    /\ h_pc' = "running"
    /\ h_store' = NewStore(module, input)
    /\ h_call' = NoHostCall
    /\ h_pass' = NoPass
    /\ UNCHANGED <<regVars, callVars, transformVars, dispatchVars, messageVars, contextVars, sdkVars>>

\* the plugin calls lunatic_plugin::input_size()
HostInputSize ==
    /\ Running
    /\ h_call' = HostCall("input_size", 0, 0, input_size(h_store), TRUE)
    /\ UNCHANGED <<regVars, callVars, transformVars, dispatchVars, messageVars, contextVars, sdkVars,
                   h_pc, h_store, h_pass>>

\* the plugin calls lunatic_plugin::read_input(dest_ptr); the plugins of
\* this specification read their input before they write any output
HostReadInput(dest_ptr) ==
    /\ Running
    /\ h_store.writes = 0
    /\ h_store' = read_input(h_store, dest_ptr)
    /\ h_call' = HostCall("read_input", dest_ptr, 0, 0, h_store'.status = "ok")
    /\ UNCHANGED <<regVars, callVars, transformVars, dispatchVars, messageVars, contextVars, sdkVars,
                   h_pc, h_pass>>

\* the plugin calls lunatic_plugin::write_output(src_ptr, len); the plugins
\* of this specification do so at most twice in a pass
HostWriteOutput(src_ptr, length) ==
    /\ Running
    /\ h_store.writes <= 1
    /\ h_store' = write_output(h_store, src_ptr, length)
    /\ h_call' = HostCall("write_output", src_ptr, length, 0,
                          h_store'.status = "ok")
    /\ UNCHANGED <<regVars, callVars, transformVars, dispatchVars, messageVars, contextVars, sdkVars,
                   h_pc, h_pass>>

\* the host function has returned and the plugin's code goes on
HostResume ==
    /\ h_pc = "running"
    /\ h_store.status = "ok"
    /\ h_call.fn # "none"
    /\ h_call' = NoHostCall
    /\ UNCHANGED <<regVars, callVars, transformVars, dispatchVars, messageVars, contextVars, sdkVars,
                   h_pc, h_store, h_pass>>

\* func.call returns, or fails with the error of the host function, and the
\* loop body uses the output buffer
HostPassEnd ==
    /\ h_pc = "running"
    /\ h_call.fn = "none" \/ h_store.status # "ok"
    /\ h_pc' = "done"
    /\ h_pass' = CallResult(h_store, h_store.input_bytes)
    /\ h_call' = NoHostCall
    /\ UNCHANGED <<regVars, callVars, transformVars, dispatchVars, messageVars, contextVars, sdkVars,
                   h_store>>

----------------------------------------------------------------------------
(* Lifecycle dispatcher *)

ProcessEvent(kind, process_id, error) ==
    [kind |-> kind, process_id |-> process_id, module_name |-> <<>>,
     error |-> error]
ModuleEvent(kind, module_name) ==
    [kind |-> kind, process_id |-> 0, module_name |-> module_name,
     error |-> FALSE]

ProcessKinds ==
    {"ProcessSpawning", "ProcessSpawned", "ProcessExiting", "ProcessExited"}
ModuleKinds == {"ModuleLoading", "ModuleLoaded"}

\* a table in which two variants share one export
event_export_name_shared(ev) ==
    CASE ev.kind = "ProcessSpawning" -> "lunatic_on_process_spawning"
      [] ev.kind = "ProcessSpawned" -> "lunatic_on_process_spawned"
      [] ev.kind = "ProcessExiting" -> "lunatic_on_process_exiting"
      [] ev.kind = "ProcessExited" -> "lunatic_on_process_exiting"
      [] ev.kind = "ModuleLoading" -> "lunatic_on_module_loading"
      [] ev.kind = "ModuleLoaded" -> "lunatic_on_module_loaded"

\* LifecycleDispatcher::event_export_name
event_export_name(ev) ==
    CASE ev.kind = "ProcessSpawning" -> "lunatic_on_process_spawning"
      [] ev.kind = "ProcessSpawned" -> "lunatic_on_process_spawned"
      [] ev.kind = "ProcessExiting" -> "lunatic_on_process_exiting"
      [] ev.kind = "ProcessExited" -> "lunatic_on_process_exited"
      [] ev.kind = "ModuleLoading" -> "lunatic_on_module_loading"
      [] ev.kind = "ModuleLoaded" -> "lunatic_on_module_loaded"

\* a conversion that takes the ids above i64::MAX for i64::MAX
AsI64Saturating(n) ==
    IF n > (UsizeMax - 1) \div 2 THEN (UsizeMax - 1) \div 2 ELSE n

\* `process_id as i64` of a u64 (u64 is as wide as usize)
AsI64(n) == IF n > (UsizeMax - 1) \div 2 THEN n - (UsizeMax + 1) ELSE n

Val(ty, v) == [ty |-> ty, v |-> v]

\* arguments built whether or not the name could be written
build_args_unchecked(ev, store) ==
    IF ev.kind \in ProcessKinds
    THEN [ok |-> TRUE, args |-> <<Val("i64", AsI64(ev.process_id))>>,
          store |-> store]
    ELSE [ok |-> TRUE,
          args |-> <<Val("i32", 0), Val("i32", AsI32(Len(ev.module_name)))>>,
          store |-> [store EXCEPT
                       !.memory = MemoryWrite(@, 0, ev.module_name).memory]]

\* LifecycleDispatcher::build_args: the arguments, and the store after the
\* module name was written into the instance's memory
build_args(ev, store) ==
    IF ev.kind \in ProcessKinds
    THEN [ok |-> TRUE, args |-> <<Val("i64", AsI64(ev.process_id))>>,
          store |-> store]
    ELSE IF ~store.has_memory
    THEN [ok |-> FALSE, args |-> <<>>, store |-> store]
    ELSE LET w == MemoryWrite(store.memory, 0, ev.module_name)
         IN IF w.ok
            THEN [ok |-> TRUE,
                  args |-> <<Val("i32", 0), Val("i32", AsI32(Len(ev.module_name)))>>,
                  store |-> [store EXCEPT !.memory = w.memory]]
            ELSE [ok |-> FALSE, args |-> <<>>, store |-> store]

\* a linker to which the three host functions of a transform pass were added
DispatchLinkerWithHostAbi == HostAbi

\* the linker of dispatch defines nothing
DispatchLinker == {}

\* what one iteration did: hook is the export whose function was called
\* ("" when none was), args its arguments, memory the instance's memory when
\* the function was entered and left its memory when the call ended
Attempt(plugin, outcome, hook, args, memory, left) ==
    [plugin |-> plugin, outcome |-> outcome, hook |-> hook, args |-> args,
     memory |-> memory, left |-> left]

NotCalled(plugin, outcome) == Attempt(plugin, outcome, "", <<>>, <<>>, <<>>)

\* the body of dispatch's for loop for one plugin
DispatchAttempt(plugin, ev) ==
    LET module == Module(plugin.module)
        export_name == event_export_name(ev)
        func == get_func(module, export_name)
        built == build_args(ev, NewStore(module, <<>>))
        store == Exec(built.store, func[1])
    IN IF ~Instantiates(module, DispatchLinker)
       THEN NotCalled(plugin, "instantiate_failed")
       ELSE IF func = <<>>
       THEN NotCalled(plugin, "no_export")
       ELSE IF ~built.ok
       THEN NotCalled(plugin, "args_failed")
       ELSE Attempt(plugin, IF store.status # "ok" THEN "trapped" ELSE "returned",
                    export_name, built.args, built.store.memory, store.memory)

\* a loop that stops at the first plugin that cannot be called or traps
NextObserverBreak(i, attempt) ==
    IF attempt.outcome = "returned" THEN i + 1 ELSE Len(dispatcher_plugins) + 1

\* every arm of the loop body ends the iteration (continue, or falling through)
NextObserver(i, attempt) == i + 1

\* dispatcher.dispatch(&ev): up to the first iteration of the loop
DispatchStart(ev) ==
    /\ NoCallInProgress
    /\ d_pc' = "loop"
    /\ event' = ev
    /\ d_idx' = 1
    /\ d_trace' = <<>>
    /\ d_earlier' = (d_pc = "returned")
    /\ UNCHANGED <<regVars, callVars, hostVars, messageVars, contextVars, sdkVars, transformVars>>

\* one iteration of dispatch's loop
DispatchStep ==
    /\ d_pc = "loop"
    /\ d_idx <= Len(dispatcher_plugins)
    /\ LET attempt == DispatchAttempt(dispatcher_plugins[d_idx], event)
       IN /\ d_trace' = Append(d_trace, attempt)
          /\ d_idx' = NextObserver(d_idx, attempt)
    /\ UNCHANGED <<regVars, callVars, hostVars, messageVars, contextVars, sdkVars, transformVars, d_pc,
                   event, d_earlier>>

\* dispatch returns after the loop
DispatchReturn ==
    /\ d_pc = "loop"
    /\ d_idx > Len(dispatcher_plugins)
    /\ d_pc' = "returned"
    /\ UNCHANGED <<regVars, callVars, hostVars, messageVars, contextVars, sdkVars, transformVars, event,
                   d_idx, d_trace, d_earlier>>

----------------------------------------------------------------------------
(* DataMessage (crates/lunatic-process/src/message.rs) *)

\* Option<T>: None is <<>>, Some(x) is <<x>>
None == <<>>
Some(x) == <<x>>

DataMessage(tag, read_ptr, buffer, resources) ==
    [tag |-> tag, read_ptr |-> read_ptr, buffer |-> buffer,
     resources |-> resources]

\* DataMessage::new: an empty buffer with the given capacity
new(tag, buffer_capacity) == DataMessage(tag, 0, <<>>, <<>>)

\* DataMessage::new_from_vec
new_from_vec(tag, buffer) == DataMessage(tag, 0, buffer, <<>>)

\* an Arc<Resource>: what it holds and which allocation it is
Resource(kind, id) == [kind |-> kind, id |-> id]

\* an add_resource that fills the first slot a take has emptied
add_resource_reusing(msg, resource) ==
    LET free == {i \in 1..Len(msg.resources) : msg.resources[i] = None}
    IN IF free = {}
       THEN [ret |-> Len(msg.resources),
             msg |-> [msg EXCEPT !.resources = Append(@, Some(resource))]]
       ELSE LET i == CHOOSE i \in free : \A j \in free : i <= j
            IN [ret |-> i - 1,
                msg |-> [msg EXCEPT !.resources[i] = Some(resource)]]

\* DataMessage::add_resource
add_resource(msg, resource) ==
    LET resources == Append(msg.resources, Some(resource))
    IN [ret |-> Len(resources) - 1,
        msg |-> [msg EXCEPT !.resources = resources]]

\* a seek that moves read_ptr forward by index
seek_relative(msg, index) == [msg EXCEPT !.read_ptr = @ + index]

\* a seek that stops at the end of the buffer
seek_clamped(msg, index) ==
    [msg EXCEPT !.read_ptr =
        IF index > Len(msg.buffer) THEN Len(msg.buffer) ELSE index]

\* DataMessage::seek
seek(msg, index) == [msg EXCEPT !.read_ptr = index]

\* DataMessage::size
size(msg) == Len(msg.buffer)

\* a write that replaces the buffer
write_replacing(msg, buf) ==
    [ok |-> TRUE, ret |-> Len(buf), msg |-> [msg EXCEPT !.buffer = buf]]

\* <DataMessage as Write>::write
write(msg, buf) ==
    [ok |-> TRUE, ret |-> Len(buf),
     msg |-> [msg EXCEPT !.buffer = @ \o buf]]

\* a read that moves read_ptr by the length of the destination
read_whole_destination(msg, buf_len) ==
    IF msg.read_ptr > Len(msg.buffer)
    THEN [ok |-> FALSE, ret |-> 0, data |-> <<>>, msg |-> msg]
    ELSE LET slice == SubSeq(msg.buffer, msg.read_ptr + 1, Len(msg.buffer))
             bytes == IF Len(slice) < buf_len THEN Len(slice) ELSE buf_len
         IN [ok |-> TRUE, ret |-> bytes, data |-> SubSeq(slice, 1, bytes),
             msg |-> [msg EXCEPT !.read_ptr = @ + buf_len]]

\* a read that leaves read_ptr where it was
read_in_place(msg, buf_len) ==
    IF msg.read_ptr > Len(msg.buffer)
    THEN [ok |-> FALSE, ret |-> 0, data |-> <<>>, msg |-> msg]
    ELSE LET slice == SubSeq(msg.buffer, msg.read_ptr + 1, Len(msg.buffer))
             bytes == IF Len(slice) < buf_len THEN Len(slice) ELSE buf_len
         IN [ok |-> TRUE, ret |-> bytes, data |-> SubSeq(slice, 1, bytes),
             msg |-> msg]

\* <DataMessage as Read>::read into a destination of buf_len bytes: data is
\* what `buf.write(slice)` copied to the front of the destination
read(msg, buf_len) ==
    IF msg.read_ptr > Len(msg.buffer)
    THEN [ok |-> FALSE, ret |-> 0, data |-> <<>>, msg |-> msg]
    ELSE LET slice == SubSeq(msg.buffer, msg.read_ptr + 1, Len(msg.buffer))
             bytes == IF Len(slice) < buf_len THEN Len(slice) ELSE buf_len
         IN [ok |-> TRUE, ret |-> bytes, data |-> SubSeq(slice, 1, bytes),
             msg |-> [msg EXCEPT !.read_ptr = @ + bytes]]

\* Arc::downcast::<T>() of an Arc<Resource>: Ok with the same allocation when
\* the value is a T, Err with the Arc given back otherwise
downcast(resource, T) ==
    [ok |-> resource.kind = T, arc |-> resource]

\* a take that gives the resource out and leaves it in its slot
take_downcast_keeping(msg, index, T) ==
    IF index >= Len(msg.resources) \/ msg.resources[index + 1] = None
       \/ ~downcast(msg.resources[index + 1][1], T).ok
    THEN [ret |-> None, msg |-> msg]
    ELSE [ret |-> msg.resources[index + 1], msg |-> msg]

\* a take that leaves the slot empty when the type does not match
take_downcast_dropping(msg, index, T) ==
    IF index >= Len(msg.resources) \/ msg.resources[index + 1] = None
    THEN [ret |-> None, msg |-> msg]
    ELSE [ret |-> IF downcast(msg.resources[index + 1][1], T).ok
                  THEN msg.resources[index + 1] ELSE None,
          msg |-> [msg EXCEPT !.resources[index + 1] = None]]

\* a take that removes the slot, so that the slots after it move down
take_downcast_shifting(msg, index, T) ==
    IF index >= Len(msg.resources) \/ msg.resources[index + 1] = None
       \/ ~downcast(msg.resources[index + 1][1], T).ok
    THEN [ret |-> None, msg |-> msg]
    ELSE [ret |-> msg.resources[index + 1],
          msg |-> [msg EXCEPT !.resources =
                      SubSeq(@, 1, index) \o SubSeq(@, index + 2, Len(@))]]

\* DataMessage::take_downcast::<T>: resources.get_mut(index), then
\* std::mem::take on the slot, which leaves None there, then the downcast
take_downcast(msg, index, T) ==
    IF index >= Len(msg.resources)
    THEN [ret |-> None, msg |-> msg]
    ELSE LET slot == msg.resources[index + 1]
             emptied == [msg EXCEPT !.resources[index + 1] = None]
             resource_any ==
                 IF slot = None THEN None ELSE Some(downcast(slot[1], T))
         IN IF resource_any = None
            THEN [ret |-> None, msg |-> emptied]
            ELSE IF resource_any[1].ok
            THEN [ret |-> Some(resource_any[1].arc), msg |-> emptied]
            ELSE [ret |-> None,
                  msg |-> [emptied EXCEPT !.resources[index + 1] =
                              Some(resource_any[1].arc)]]

\* DataMessage::take_module, take_tcp_stream, take_udp_socket, take_tls_stream
take_module(msg, index) == take_downcast(msg, index, "Module")
take_tcp_stream(msg, index) == take_downcast(msg, index, "TcpStream")
take_udp_socket(msg, index) == take_downcast(msg, index, "UdpSocket")
take_tls_stream(msg, index) == take_downcast(msg, index, "TlsStream")

\* the take function that hands out a T
take(msg, index, T) ==
    CASE T = "Module" -> take_module(msg, index)
      [] T = "TcpStream" -> take_tcp_stream(msg, index)
      [] T = "UdpSocket" -> take_udp_socket(msg, index)
      [] T = "TlsStream" -> take_tls_stream(msg, index)

\* the last operation on the message: the slice it was given (write), its
\* numeric argument (read: the length of the destination, seek: the index),
\* whether it returned Ok, the returned number, the bytes a read transferred
\* and the read_ptr the operation started from; initial and written are the
\* buffer the message was created with and the slices written since, in
\* call order
Io(op, buf, arg, ok, ret, data, from, initial, written) ==
    [op |-> op, buf |-> buf, arg |-> arg, ok |-> ok, ret |-> ret,
     data |-> data, from |-> from, initial |-> initial, written |-> written]

Created(buffer) == Io("new", <<>>, 0, TRUE, 0, <<>>, 0, buffer, <<>>)

\* what the caller did with the message so far: whether the last operation is
\* a read that came right after a seek, whether a read transferred bytes
\* before that, the add_resource calls in call order (the index each returned
\* and the resource it was given), the indices at which a take asked for the
\* type of the resource added there, and the type the last take asked for
\* with what it returned
Log(after_seek, read_any, adds, asked, T, taken) ==
    [after_seek |-> after_seek, read_any |-> read_any, adds |-> adds,
     asked |-> asked, T |-> T, taken |-> taken]

NoLog == Log(FALSE, FALSE, <<>>, {}, "", None)

\* the log after one more operation that is not a take
Logged(after_seek, adds) ==
    Log(after_seek, log.read_any \/ (io.op = "read" /\ io.ret > 0), adds,
        log.asked, "", None)

MessageUnchanged ==
    UNCHANGED <<regVars, callVars, transformVars, dispatchVars, hostVars,
                contextVars, sdkVars>>

\* let mut message = DataMessage::new_from_vec(tag, buffer), in place of the
\* empty message DataMessage::new(None, 0) that nothing was done with yet
MessageNewFromVec(tag, buffer) ==
    /\ message = new(None, 0) /\ io = Created(<<>>)
    /\ message' = new_from_vec(tag, buffer)
    /\ io' = Created(buffer)
    /\ log' = NoLog
    /\ MessageUnchanged

\* message.write(buf)
MessageWrite(buf) ==
    LET res == write(message, buf)
    IN /\ Len(message.buffer) + Len(buf) <= MaxMessage
       /\ message' = res.msg
       /\ io' = Io("write", buf, 0, res.ok, res.ret, <<>>, message.read_ptr,
                   io.initial, io.written \o buf)
       /\ log' = Logged(FALSE, log.adds)
       /\ MessageUnchanged

\* message.read(&mut buf) with buf.len() = buf_len
MessageRead(buf_len) ==
    LET res == read(message, buf_len)
    IN /\ message' = res.msg
       /\ io' = Io("read", <<>>, buf_len, res.ok, res.ret, res.data,
                   message.read_ptr,
                   io.initial, io.written)
       /\ log' = Logged(io.op = "seek", log.adds)
       /\ MessageUnchanged

\* message.seek(index)
MessageSeek(index) ==
    /\ message' = seek(message, index)
    /\ io' = Io("seek", <<>>, index, TRUE, 0, <<>>, message.read_ptr,
                io.initial, io.written)
    /\ log' = Logged(FALSE, log.adds)
    /\ MessageUnchanged

\* message.add_resource(Arc::new(resource)): the Arc is a new allocation
MessageAddResource(kind) ==
    LET resource == Resource(kind, Len(message.resources))
        res == add_resource(message, resource)
    IN /\ Len(message.resources) < MaxResources
       /\ message' = res.msg
       /\ io' = Io("add_resource", <<>>, 0, TRUE, res.ret, <<>>,
                   message.read_ptr,
                   io.initial, io.written)
       /\ log' = Logged(FALSE, Append(log.adds,
                                      [ret |-> res.ret, resource |-> resource]))
       /\ MessageUnchanged

\* message.take_module(index), take_tcp_stream(index), take_udp_socket(index)
\* or take_tls_stream(index): the function that hands out a T
MessageTake(T, index) ==
    LET res == take(message, index, T)
        matching == \E k \in 1..Len(log.adds) :
                       /\ log.adds[k].ret = index
                       /\ log.adds[k].resource.kind = T
    IN /\ message' = res.msg
       /\ io' = Io("take", <<>>, index, TRUE, 0, <<>>, message.read_ptr,
                   io.initial, io.written)
       /\ log' = Log(FALSE, log.read_any \/ (io.op = "read" /\ io.ret > 0),
                     log.adds,
                     IF matching THEN log.asked \cup {index} ELSE log.asked,
                     T, res.ret)
       /\ MessageUnchanged

----------------------------------------------------------------------------
(* ModuleContext (crates/lunatic-plugin/src/module_context.rs) *)

\* A wasm binary is the sequence of its sections, which the parser yields in
\* file order and the encoder writes in call order. A section has its id and
\* either entries (type 1, import 2, function 3, export 7, code 10) or the
\* bytes of its body.
Section(id, items, data) == [id |-> id, items |-> items, data |-> data]

\* ContextType::New
ContextType(params, returns) == [params |-> params, returns |-> returns]

\* ContextCode::New
ContextCode(locals, body) == [locals |-> locals, body |-> body]

\* ContextExport::NewFunction
NewFunction(name, index) ==
    [variant |-> "NewFunction", name |-> name, index |-> index]

\* ContextExport::Parsed
Parsed(name, kind, index) ==
    [variant |-> "Parsed", name |-> name, kind |-> kind, index |-> index]

RawSection(id, data) == [id |-> id, data |-> data]

ParsedImport(module, name, ty) == [module |-> module, name |-> name, ty |-> ty]

ModuleContext(types, functions, code_section, imports, import_func_count, exports, sections, function_names) ==
    [types |-> types, functions |-> functions, code_section |-> code_section,
     imports |-> imports, import_func_count |-> import_func_count,
     exports |-> exports, sections |-> sections,
     function_names |-> function_names]

\* a Result<T>: Ok(value) or an error
Fine(value) == [ok |-> TRUE, value |-> value]
Failed(value) == [ok |-> FALSE, value |-> value]

\* translate_ref_type: funcref and externref only
translate_ref_type(r) ==
    IF r \in {"FuncRef", "ExternRef"} THEN Fine(r) ELSE Failed(r)

\* translate_val_type
translate_val_type(ty) ==
    IF ty \in {"I32", "I64", "F32", "F64", "V128"} THEN Fine(ty)
    ELSE translate_ref_type(ty)

\* translate_parser_ref_type
translate_parser_ref_type(r) ==
    IF r \in {"FuncRef", "ExternRef"} THEN Fine(r) ELSE Failed(r)

\* translate_import: the entity of a wasmparser::TypeRef; content is the
\* element type of a table and the value type of a global
translate_import(import) ==
    LET ty == import.ty
        entity(kind) == [kind |-> kind, index |-> ty.index, content |-> ty.content]
        made(kind) == Fine(ParsedImport(import.module, import.name, entity(kind)))
    IN CASE ty.kind = "Func" -> made("Function")
         [] ty.kind = "Table" ->
               IF translate_parser_ref_type(ty.content).ok
               THEN made("Table") ELSE Failed(import)
         [] ty.kind = "Memory" -> made("Memory")
         [] ty.kind = "Global" ->
               IF translate_val_type(ty.content).ok
               THEN made("Global") ELSE Failed(import)
         [] ty.kind = "Tag" -> made("Tag")
         [] ty.kind = "FuncExact" -> made("FunctionExact")

\* translate_export_kind
translate_export_kind(kind) ==
    CASE kind = "Func" -> "Func"
      [] kind = "Table" -> "Table"
      [] kind = "Memory" -> "Memory"
      [] kind = "Global" -> "Global"
      [] kind = "Tag" -> "Tag"
      [] kind = "FuncExact" -> "Func"

\* HashMap::insert
insert(map, key, value) ==
    [k \in DOMAIN map \cup {key} |-> IF k = key THEN value ELSE map[k]]

\* the function_names map after the exports of one export section
RECURSIVE InsertFunctionNames(_, _)
InsertFunctionNames(function_names, exports) ==
    IF exports = <<>> THEN function_names
    ELSE InsertFunctionNames(
             IF Head(exports).kind = "Func"
             THEN insert(function_names, Head(exports).name, Head(exports).index)
             ELSE function_names,
             Tail(exports))

\* the ids of the sections ModuleContext::new keeps as RawSection
RawIds == {4, 5, 6, 8, 9, 11, 12, 0}

\* one arm of the match in ModuleContext::new: the context after the payloads
\* of one section, or the error the arm returns
Payload(ctx, section) ==
    LET items == section.items
        n == Len(items)
    IN CASE section.id = 1 ->
              IF \E i \in 1..n :
                    \/ items[i].composite # "Func"
                    \/ \E j \in 1..Len(items[i].params) :
                          ~translate_val_type(items[i].params[j]).ok
                    \/ \E j \in 1..Len(items[i].returns) :
                          ~translate_val_type(items[i].returns[j]).ok
              THEN Failed(ctx)
              ELSE Fine([ctx EXCEPT !.types =
                           @ \o [i \in 1..n |->
                                    ContextType(items[i].params,
                                                items[i].returns)]])
         [] section.id = 2 ->
              IF \E i \in 1..n : ~translate_import(items[i]).ok
              THEN Failed(ctx)
              ELSE Fine([ctx EXCEPT
                           !.import_func_count =
                               @ + Cardinality({i \in 1..n :
                                                  items[i].ty.kind = "Func"}),
                           !.imports =
                               @ \o [i \in 1..n |->
                                        translate_import(items[i]).value]])
         [] section.id = 3 ->
              Fine([ctx EXCEPT !.functions =
                      @ \o [i \in 1..n |-> items[i].type_index]])
         [] section.id = 7 ->
              Fine([ctx EXCEPT
                      !.function_names = InsertFunctionNames(@, items),
                      !.exports =
                          @ \o [i \in 1..n |->
                                   Parsed(items[i].name, items[i].kind,
                                          items[i].index)]])
         [] section.id = 10 ->
              IF \E i \in 1..n : \E j \in 1..Len(items[i].locals) :
                    ~translate_val_type(items[i].locals[j].ty).ok
              THEN Failed(ctx)
              ELSE Fine([ctx EXCEPT !.code_section =
                           @ \o [i \in 1..n |->
                                    ContextCode(items[i].locals,
                                                items[i].body)]])
         [] section.id \in RawIds ->
              Fine([ctx EXCEPT !.sections =
                      Append(@, RawSection(section.id, section.data))])
         [] OTHER -> Fine(ctx)

\* the loop over parser.parse_all(module)
RECURSIVE ParseAll(_, _)
ParseAll(module, ctx) ==
    IF module = <<>> THEN Fine(ctx)
    ELSE LET res == Payload(ctx, Head(module))
         IN IF res.ok THEN ParseAll(Tail(module), res.value) ELSE res

\* ModuleContext::new
ModuleContextNew(module) ==
    ParseAll(module, ModuleContext(<<>>, <<>>, <<>>, <<>>, 0, <<>>, <<>>, <<>>))

\* ModuleContext::add_function_type
add_function_type(ctx, params, returns) ==
    LET idx == Len(ctx.types)
    IN [ret |-> idx,
        ctx |-> [ctx EXCEPT !.types = Append(@, ContextType(params, returns))]]

\* an add_function that returns the position among the defined functions
add_function_local(ctx, type_index, locals, body) ==
    [ret |-> Len(ctx.functions),
     ctx |-> [ctx EXCEPT !.functions = Append(@, type_index),
                         !.code_section = Append(@, ContextCode(locals, body))]]

\* ModuleContext::add_function
add_function(ctx, type_index, locals, body) ==
    LET func_idx == ctx.import_func_count + Len(ctx.functions)
    IN [ret |-> func_idx,
        ctx |-> [ctx EXCEPT !.functions = Append(@, type_index),
                            !.code_section =
                                Append(@, ContextCode(locals, body))]]

\* ModuleContext::add_function_export
add_function_export(ctx, name, func_idx) ==
    [ctx EXCEPT !.exports = Append(@, NewFunction(name, func_idx))]

\* ModuleContext::function_by_name
function_by_name(ctx, name) ==
    IF name \in DOMAIN ctx.function_names
    THEN Some(ctx.function_names[name]) ELSE None

\* the number of sections at the front of sections whose id is in ids: how
\* far a `while section_iter.peek().is_some_and(..)` loop advances
RECURSIVE Leading(_, _)
Leading(sections, ids) ==
    IF sections = <<>> \/ Head(sections).id \notin ids THEN 0
    ELSE 1 + Leading(Tail(sections), ids)

\* module.section(&wasm_encoder::RawSection { id, data }) for each of them
EmitRaw(sections) ==
    [i \in 1..Len(sections) |-> Section(sections[i].id, <<>>, sections[i].data)]

\* the kind a wasmparser reads back for an entity written by wasm_encoder
TypeRefKind(entity_kind) ==
    CASE entity_kind = "Function" -> "Func"
      [] entity_kind = "FunctionExact" -> "FuncExact"
      [] OTHER -> entity_kind

\* the sections encode builds itself, each left out when it has no entries
TypeSection(ctx) ==
    IF ctx.types = <<>> THEN <<>>
    ELSE <<Section(1, [i \in 1..Len(ctx.types) |->
                         [composite |-> "Func",
                          params |-> ctx.types[i].params,
                          returns |-> ctx.types[i].returns]], <<>>)>>

ImportSection(ctx) ==
    IF ctx.imports = <<>> THEN <<>>
    ELSE <<Section(2, [i \in 1..Len(ctx.imports) |->
                         [module |-> ctx.imports[i].module,
                          name |-> ctx.imports[i].name,
                          ty |-> [ctx.imports[i].ty EXCEPT
                                     !.kind = TypeRefKind(@)]]], <<>>)>>

FunctionSection(ctx) ==
    IF ctx.functions = <<>> THEN <<>>
    ELSE <<Section(3, [i \in 1..Len(ctx.functions) |->
                         [type_index |-> ctx.functions[i]]], <<>>)>>

ExportSection(ctx) ==
    IF ctx.exports = <<>> THEN <<>>
    ELSE <<Section(7, [i \in 1..Len(ctx.exports) |->
                         LET export == ctx.exports[i]
                         IN [name |-> export.name,
                             kind |-> IF export.variant = "NewFunction"
                                      THEN "Func"
                                      ELSE translate_export_kind(export.kind),
                             index |-> export.index]], <<>>)>>

CodeSection(ctx) ==
    IF ctx.code_section = <<>> THEN <<>>
    ELSE <<Section(10, [i \in 1..Len(ctx.code_section) |->
                          [locals |-> ctx.code_section[i].locals,
                           body |-> ctx.code_section[i].body]], <<>>)>>

\* an encode that leaves out the sections it deferred
encode_dropping(ctx) ==
    LET s0 == ctx.sections
        s1 == SubSeq(s0, Leading(s0, 4..6) + 1, Len(s0))
        s2 == SubSeq(s1, Leading(s1, {8}) + 1, Len(s1))
        s3 == SubSeq(s2, Leading(s2, {9}) + 1, Len(s2))
        s4 == SubSeq(s3, Leading(s3, (0..255) \ {0, 11, 12}) + 1, Len(s3))
        s5 == SubSeq(s4, Leading(s4, {12}) + 1, Len(s4))
        s6 == SubSeq(s5, Leading(s5, {11}) + 1, Len(s5))
    IN Ok(TypeSection(ctx) \o ImportSection(ctx) \o FunctionSection(ctx)
          \o EmitRaw(SubSeq(s0, 1, Leading(s0, 4..6)))
          \o ExportSection(ctx)
          \o EmitRaw(SubSeq(s1, 1, Leading(s1, {8})))
          \o EmitRaw(SubSeq(s2, 1, Leading(s2, {9})))
          \o EmitRaw(SubSeq(s4, 1, Leading(s4, {12})))
          \o CodeSection(ctx)
          \o EmitRaw(SubSeq(s5, 1, Leading(s5, {11})))
          \o EmitRaw(s6))

\* ModuleContext::encode: s0 .. s6 are what is left of section_iter after
\* each of the loops that advance it, deferred what the fourth loop collects
encode(ctx) ==
    LET s0 == ctx.sections
        s1 == SubSeq(s0, Leading(s0, 4..6) + 1, Len(s0))
        s2 == SubSeq(s1, Leading(s1, {8}) + 1, Len(s1))
        s3 == SubSeq(s2, Leading(s2, {9}) + 1, Len(s2))
        deferred_sections ==
            SubSeq(s3, 1, Leading(s3, (0..255) \ {0, 11, 12}))
        s4 == SubSeq(s3, Len(deferred_sections) + 1, Len(s3))
        s5 == SubSeq(s4, Leading(s4, {12}) + 1, Len(s4))
        s6 == SubSeq(s5, Leading(s5, {11}) + 1, Len(s5))
    IN Ok(TypeSection(ctx) \o ImportSection(ctx) \o FunctionSection(ctx)
          \o EmitRaw(SubSeq(s0, 1, Leading(s0, 4..6)))
          \o ExportSection(ctx)
          \o EmitRaw(SubSeq(s1, 1, Leading(s1, {8})))
          \o EmitRaw(SubSeq(s2, 1, Leading(s2, {9})))
          \o EmitRaw(SubSeq(s4, 1, Leading(s4, {12})))
          \o CodeSection(ctx)
          \o EmitRaw(SubSeq(s5, 1, Leading(s5, {11})))
          \o EmitRaw(deferred_sections)
          \o EmitRaw(s6))

\* the last call on the context: its name argument, its index argument and
\* the index it returned
ContextCall(op, name, index, ret) ==
    [op |-> op, name |-> name, index |-> index, ret |-> ret]

NoContextCall == ContextCall("none", "", 0, 0)

ContextUnchanged ==
    UNCHANGED <<regVars, callVars, transformVars, dispatchVars, hostVars,
                messageVars, sdkVars>>

\* let mut ctx = ModuleContext::new(&module)
ContextNew(module) ==
    /\ mc_call = NoContextCall
    /\ mc_module' = module
    /\ mc_ctx' = ModuleContextNew(module)
    /\ mc_call' = ContextCall("new", "", 0, 0)
    /\ UNCHANGED <<mc_output, mc_reparsed>>
    /\ ContextUnchanged

\* the context is there to be edited: new returned Ok and encode was not
\* called yet
Editing == mc_call # NoContextCall /\ mc_ctx.ok /\ mc_output = None

\* what new made of the input
AtParse == ModuleContextNew(mc_module).value

\* ctx.add_function_type(params, returns)
ContextAddFunctionType(params, returns) ==
    LET res == add_function_type(mc_ctx.value, params, returns)
    IN /\ Editing
       /\ Len(mc_ctx.value.types) < Len(AtParse.types) + MaxAdded
       /\ mc_ctx' = Fine(res.ctx)
       /\ mc_call' = ContextCall("add_function_type", "", 0, res.ret)
       /\ UNCHANGED <<mc_module, mc_output, mc_reparsed>>
       /\ ContextUnchanged

\* ctx.add_function(type_index, locals, body)
ContextAddFunction(type_index, locals, body) ==
    LET res == add_function(mc_ctx.value, type_index, locals, body)
    IN /\ Editing
       /\ Len(mc_ctx.value.functions) < Len(AtParse.functions) + MaxAdded
       /\ mc_ctx' = Fine(res.ctx)
       /\ mc_call' = ContextCall("add_function", "", type_index, res.ret)
       /\ UNCHANGED <<mc_module, mc_output, mc_reparsed>>
       /\ ContextUnchanged

\* ctx.add_function_export(name, func_idx)
ContextAddFunctionExport(name, func_idx) ==
    /\ Editing
    /\ Len(mc_ctx.value.exports) < Len(AtParse.exports) + MaxAdded
    /\ mc_ctx' = Fine(add_function_export(mc_ctx.value, name, func_idx))
    /\ mc_call' = ContextCall("add_function_export", name, func_idx, 0)
    /\ UNCHANGED <<mc_module, mc_output, mc_reparsed>>
    /\ ContextUnchanged

\* let output = ctx.encode().unwrap()
ContextEncode ==
    /\ Editing
    /\ mc_output' = Some(encode(mc_ctx.value).bytes)
    /\ mc_call' = ContextCall("encode", "", 0, 0)
    /\ UNCHANGED <<mc_module, mc_ctx, mc_reparsed>>
    /\ ContextUnchanged

\* let ctx2 = ModuleContext::new(&output)
ContextReparse ==
    /\ mc_output # None /\ mc_reparsed = None
    /\ mc_reparsed' = Some(ModuleContextNew(mc_output[1]))
    /\ mc_call' = ContextCall("reparse", "", 0, 0)
    /\ UNCHANGED <<mc_module, mc_ctx, mc_output>>
    /\ ContextUnchanged

----------------------------------------------------------------------------
(* Plugin SDK codecs (crates/lunatic-plugin-sdk/src/lib.rs) and the        *)
(* namespace filter (crates/lunatic-plugin/src/lib.rs)                     *)

\* the variants of the SDK's enum ValType
ValType == {"I32", "I64", "F32", "F64", "V128", "FuncRef", "ExternRef"}

\* the values of a u8
U8 == 0..255

\* a table that gives V128 the byte of F64
to_byte_colliding(self) ==
    CASE self = "I32" -> 127
      [] self = "I64" -> 126
      [] self = "F32" -> 125
      [] self = "F64" -> 124
      [] self = "V128" -> 124
      [] self = "FuncRef" -> 112
      [] self = "ExternRef" -> 111

\* ValType::to_byte: 0x7F, 0x7E, 0x7D, 0x7C, 0x7B, 0x70, 0x6F
to_byte(self) ==
    CASE self = "I32" -> 127
      [] self = "I64" -> 126
      [] self = "F32" -> 125
      [] self = "F64" -> 124
      [] self = "V128" -> 123
      [] self = "FuncRef" -> 112
      [] self = "ExternRef" -> 111

\* a decoder that takes every byte below 0x6F for ExternRef
from_byte_lenient(byte) ==
    CASE byte = 127 -> Fine("I32")
      [] byte = 126 -> Fine("I64")
      [] byte = 125 -> Fine("F32")
      [] byte = 124 -> Fine("F64")
      [] byte = 123 -> Fine("V128")
      [] byte = 112 -> Fine("FuncRef")
      [] byte <= 111 -> Fine("ExternRef")
      [] OTHER -> Failed("Unknown value type byte")

\* ValType::from_byte: the same table read backwards, an error otherwise
from_byte(byte) ==
    CASE byte = 127 -> Fine("I32")
      [] byte = 126 -> Fine("I64")
      [] byte = 125 -> Fine("F32")
      [] byte = 124 -> Fine("F64")
      [] byte = 123 -> Fine("V128")
      [] byte = 112 -> Fine("FuncRef")
      [] byte = 111 -> Fine("ExternRef")
      [] OTHER -> Failed("Unknown value type byte")

\* a u32 or an i32 is its 32 bits, bit 0 the least significant
WordBits == 32
BitIndex == 0..(WordBits - 1)

\* the bits of a natural number below 2^31
FromNat(n) == [k \in BitIndex |-> IF k >= 31 THEN 0 ELSE (n \div Pow2(k)) % 2]

\* !w
Not(w) == [k \in BitIndex |-> 1 - w[k]]

\* the two's complement bits of an integer
FromInt(n) == IF n >= 0 THEN FromNat(n) ELSE Not(FromNat(-n - 1))

Zero == FromNat(0)
MinusOne == Not(Zero)

\* (value & 0x7F) as u8
Low7(value) ==
    value[0] + 2 * value[1] + 4 * value[2] + 8 * value[3] + 16 * value[4]
    + 32 * value[5] + 64 * value[6]

\* value >> n of a u32: zeros come in from the left
Shr(value, n) ==
    [k \in BitIndex |-> IF k + n < WordBits THEN value[k + n] ELSE 0]

\* value >> n of an i32: copies of the sign bit come in from the left
Sar(value, n) ==
    [k \in BitIndex |-> IF k + n < WordBits THEN value[k + n]
                        ELSE value[WordBits - 1]]

\* what a loop returned, or that it was still running when the model left it
Encoded(done, bytes) == [done |-> done, bytes |-> bytes]

\* an iteration that shifts the u32 like a signed number
u32_iteration_signed(value) ==
    LET rest == Sar(value, 7)
    IN [byte |-> IF rest # Zero THEN Low7(value) + 128 ELSE Low7(value),
        value |-> rest, more |-> rest # Zero]

\* one iteration of encode_leb128_u32's loop: the byte pushed, the value
\* left, and whether the loop goes on
u32_iteration(value) ==
    LET rest == Shr(value, 7)
    IN [byte |-> IF rest # Zero THEN Low7(value) + 128 ELSE Low7(value),
        value |-> rest, more |-> rest # Zero]

RECURSIVE u32_loop(_, _, _)
u32_loop(value, result, left) ==
    IF left = 0 THEN Encoded(FALSE, result)
    ELSE LET it == u32_iteration(value)
         IN IF it.more THEN u32_loop(it.value, Append(result, it.byte), left - 1)
            ELSE Encoded(TRUE, Append(result, it.byte))

\* encode_leb128_u32(value), followed for at most MaxIterations iterations
encode_leb128_u32(value) == u32_loop(value, <<>>, MaxIterations)

\* an iteration that stops at 0 and at -1 whatever bit 6 of the byte is
i32_iteration_unsigned(value) ==
    LET rest == Sar(value, 7)
        last == rest = Zero \/ rest = MinusOne
    IN [byte |-> IF last THEN Low7(value) ELSE Low7(value) + 128,
        value |-> rest, more |-> ~last]

\* one iteration of encode_leb128_i32's loop; byte & 0x40 is bit 6
i32_iteration(value) ==
    LET rest == Sar(value, 7)
        last == \/ rest = Zero /\ value[6] = 0
                \/ rest = MinusOne /\ value[6] = 1
    IN [byte |-> IF last THEN Low7(value) ELSE Low7(value) + 128,
        value |-> rest, more |-> ~last]

RECURSIVE i32_loop(_, _, _)
i32_loop(value, result, left) ==
    IF left = 0 THEN Encoded(FALSE, result)
    ELSE LET it == i32_iteration(value)
         IN IF it.more THEN i32_loop(it.value, Append(result, it.byte), left - 1)
            ELSE Encoded(TRUE, Append(result, it.byte))

\* encode_leb128_i32(value), followed for at most MaxIterations iterations
encode_leb128_i32(value) == i32_loop(value, <<>>, MaxIterations)

\* str::starts_with
starts_with(s, prefix) ==
    Len(prefix) <= Len(s) /\ SubSeq(s, 1, Len(prefix)) = prefix

\* a filter that compares the namespace alone with the entries
namespace_matches_filter_bare(namespace, name, filter) ==
    \E i \in 1..Len(filter) : starts_with(namespace, filter[i])

\* namespace_matches_filter: format!("{namespace}::{name}") and any()
namespace_matches_filter(namespace, name, filter) ==
    LET full_name == namespace \o <<":", ":">> \o name
    IN \E i \in 1..Len(filter) : starts_with(full_name, filter[i])

\* the last call of one of the functions above
SdkCall(fn, arg, ret) == [fn |-> fn, arg |-> arg, ret |-> ret]
NoSdkCall == SdkCall("none", <<>>, <<>>)

\* the functions keep no state: a behaviour is one call of one of them
SdkUnchanged ==
    /\ sdk.fn = "none"
    /\ UNCHANGED <<regVars, callVars, transformVars, dispatchVars, hostVars,
                   messageVars, contextVars>>

\* let b = v.to_byte()
SdkToByte(v) ==
    /\ SdkUnchanged
    /\ sdk' = SdkCall("to_byte", v, to_byte(v))

\* let r = ValType::from_byte(byte)
SdkFromByte(byte) ==
    /\ SdkUnchanged
    /\ sdk' = SdkCall("from_byte", byte, from_byte(byte))

\* let bytes = encode_leb128_u32(value)
SdkEncodeU32(value) ==
    /\ SdkUnchanged
    /\ sdk' = SdkCall("encode_leb128_u32", value, encode_leb128_u32(value))

\* let bytes = encode_leb128_i32(value)
SdkEncodeI32(value) ==
    /\ SdkUnchanged
    /\ sdk' = SdkCall("encode_leb128_i32", value, encode_leb128_i32(value))

\* let allowed = namespace_matches_filter(namespace, name, &filter)
SdkNamespaceMatchesFilter(namespace, name, filter) ==
    /\ SdkUnchanged
    /\ sdk' = SdkCall("namespace_matches_filter",
                      [namespace |-> namespace, name |-> name, filter |-> filter],
                      namespace_matches_filter(namespace, name, filter))

----------------------------------------------------------------------------
(* Specifications *)

Init ==
    /\ plugins = <<>>
    /\ module_transform_plugins = <<>>
    /\ host_function_plugins = <<>>
    /\ lifecycle_plugins = <<>>
    /\ dispatcher_plugins = <<>>
    /\ next_id = 0
    /\ last_call = Call("new", PluginInfo("", <<>>), TRUE)
    /\ t_pc = "idle" /\ module_bytes = <<>> /\ current_bytes = <<>>
    /\ t_idx = 0 /\ t_result = Ok(<<>>) /\ t_trace = <<>> /\ t_earlier = FALSE
    /\ d_pc = "idle" /\ event = NoEvent /\ d_idx = 0 /\ d_trace = <<>>
    /\ d_earlier = FALSE
    /\ h_pc = "idle" /\ h_store = NewStore(AnyPlugin(FALSE, 0), <<>>)
    /\ h_call = NoHostCall /\ h_pass = NoPass
    /\ message = new(None, 0)
    /\ io = Created(<<>>)
    /\ log = NoLog
    /\ mc_module = <<>>
    /\ mc_ctx = ModuleContextNew(<<>>)
    /\ mc_call = NoContextCall
    /\ mc_output = None
    /\ mc_reparsed = None
    /\ sdk = NoSdkCall

Names == {"a", "b"}
Namespaces == {"ns1", "ns2"}

\* capability lists of the registered plugins
CapLists ==
    {<<>>, <<ModuleTransform>>, <<LifecycleHooks>>, <<HostFunctions("ns1")>>,
     <<HostFunctions("ns1"), HostFunctions("ns2"), HostFunctions("ns1")>>,
     <<Networking, Filesystem, ProcessSpawn>>,
     <<ModuleTransform, Networking, LifecycleHooks, HostFunctions("ns2")>>}

ValidWasm(key) == [valid |-> TRUE, module |-> key]
InvalidWasm == [valid |-> FALSE, module |-> "not valid wasm"]

\* the registry: register and register_wasm with any name and capabilities
Next ==
    \/ \E n \in Names, caps \in CapLists :
          Register(PluginInfo(n, caps), "empty", MaxRegs)
    \/ \E n \in Names, caps \in CapLists, w \in {ValidWasm("empty"), InvalidWasm} :
          RegisterWasm(PluginInfo(n, caps), w, MaxRegs)

Spec == Init /\ [][Next]_vars

TransformModules ==
    {"empty", "memory_only", "noop", "passthrough", "append", "prepend", "trap", "oob",
     "write_then_trap", "bad_import"}

Bytes == 0..MaxByte

RECURSIVE SeqsUpTo(_, _)
SeqsUpTo(S, n) ==
    IF n = 0 THEN {<<>>}
    ELSE LET shorter == SeqsUpTo(S, n - 1)
         IN shorter \cup {Append(q, x) : q \in shorter, x \in S}

Inputs == SeqsUpTo(Bytes, MaxInput)

\* the pipeline: transform plugins are registered, modules are transformed
NextTransform ==
    \/ \E key \in TransformModules :
          RegisterWasm(PluginInfo(key, <<ModuleTransform>>), ValidWasm(key), MaxChain)
    \/ \E bytes \in Inputs : TransformStart(bytes)
    \/ TransformStep
    \/ TransformReturn

SpecTransform == Init /\ [][NextTransform]_vars

LifecycleModules ==
    {"empty", "observer", "spawned_only", "trap_hook", "no_memory", "dual",
     "start_trap"}

\* the capability lists of lifecycle plugins: LifecycleHooks, once or twice
LifecycleCaps == {<<LifecycleHooks>>, <<LifecycleHooks, LifecycleHooks>>}

\* a module name that does not fit into one page of memory
LongName == Repeat(MaxByte, PageSize + 1)

Events ==
    {ProcessEvent(k, pid, FALSE) :
        k \in ProcessKinds, pid \in {1, (UsizeMax + 1) \div 2}}
    \cup {ProcessEvent("ProcessExited", 1, TRUE)}
    \cup {ModuleEvent(k, nm) : k \in ModuleKinds, nm \in {<<>>, <<1, 0>>, LongName}}

\* the dispatcher: lifecycle plugins are registered, events are dispatched
NextLifecycle ==
    \/ \E key \in LifecycleModules, caps \in LifecycleCaps :
          Register(PluginInfo(key, caps), key, MaxObservers)
    \/ \E ev \in Events : DispatchStart(ev)
    \/ DispatchStep
    \/ DispatchReturn

SpecLifecycle == Init /\ [][NextLifecycle]_vars

\* plugins without and with an exported memory of one page
HostPlugins == {AnyPlugin(FALSE, 0), AnyPlugin(TRUE, 1)}

\* n bytes, not all equal
Ramp(n) == [i \in 1..n |-> i % (MaxByte + 1)]

\* current bytes of a pass: short ones, and the lengths around the largest i32
HostInputs == {Ramp(n) : n \in {0, MaxInput, I32Max, I32Max + 1}}

NextHostAbi ==
    \/ \E module \in HostPlugins, input \in HostInputs : HostPassStart(module, input)
    \/ HostInputSize
    \/ \E dest_ptr \in I32 : HostReadInput(dest_ptr)
    \/ \E src_ptr \in I32, length \in I32 : HostWriteOutput(src_ptr, length)
    \/ HostResume
    \/ HostPassEnd

SpecHostAbi == Init /\ [][NextHostAbi]_vars

\* tags of a message: none, or an i64
Tags == {None, Some(1)}

ResourceKinds == {"Module", "TcpStream"}

\* the types the four take functions hand out
TakeTypes == {"Module", "TcpStream", "UdpSocket", "TlsStream"}

\* a message is created, written to, read from and repositioned; seek takes
\* every usize, here the offsets up to one past the longest buffer
NextMessage ==
    \/ \E tag \in Tags, buffer \in SeqsUpTo(Bytes, MaxMessage) :
          MessageNewFromVec(tag, buffer)
    \/ \E buf \in SeqsUpTo(Bytes, MaxMessage) : MessageWrite(buf)
    \/ \E buf_len \in 0..(MaxMessage + 1) : MessageRead(buf_len)
    \/ \E index \in 0..(MaxMessage + 1) : MessageSeek(index)
    \/ MessageAddResource("Module")

SpecMessage == Init /\ [][NextMessage]_vars

\* a message is created, resources are added to it and taken from it with
\* every one of the take functions at every index up to one past the last
\* slot, and its read_ptr is moved to the start or past the end
NextResources ==
    \/ \E tag \in Tags, buffer \in {<<>>, Ramp(MaxMessage)} :
          MessageNewFromVec(tag, buffer)
    \/ \E index \in {0, MaxMessage + 1} : MessageSeek(index)
    \/ \E kind \in ResourceKinds : MessageAddResource(kind)
    \/ \E T \in TakeTypes, index \in 0..MaxResources : MessageTake(T, index)

SpecResources == Init /\ [][NextResources]_vars

\* the sections of the parsed modules: one function type, imports of two
\* functions and a memory, one defined function, exports of that function
\* and of the memory, and one section of each other standard kind
TypeSec ==
    Section(1, <<[composite |-> "Func", params |-> <<"I32">>,
                  returns |-> <<>>]>>, <<>>)
ImportSec ==
    Section(2, <<[module |-> "env", name |-> "a",
                  ty |-> [kind |-> "Func", index |-> 0, content |-> ""]],
                 [module |-> "env", name |-> "m",
                  ty |-> [kind |-> "Memory", index |-> 0, content |-> ""]],
                 [module |-> "env", name |-> "b",
                  ty |-> [kind |-> "Func", index |-> 0, content |-> ""]]>>,
            <<>>)
FunctionSec == Section(3, <<[type_index |-> 0]>>, <<>>)
ExportSec ==
    Section(7, <<[name |-> "g", kind |-> "Func", index |-> 0],
                 [name |-> "mem", kind |-> "Memory", index |-> 0]>>, <<>>)
CodeSec ==
    Section(10, <<[locals |-> <<[count |-> 1, ty |-> "I32"]>>,
                   body |-> <<11>>]>>, <<>>)
Opaque(id) == Section(id, <<>>, <<id, 1>>)
Custom(name) == Section(0, <<>>, <<name, 0>>)

\* a module with every standard section, in the order of the binary format
Full ==
    <<TypeSec, ImportSec, FunctionSec, Opaque(4), Opaque(5), Opaque(6),
      ExportSec, Opaque(8), Opaque(9), Opaque(12), CodeSec, Opaque(11)>>

\* a module with one function, a memory and data, and no imports
Small == <<TypeSec, FunctionSec, Opaque(5), CodeSec, Opaque(11)>>

InsertAt(s, p, x) == SubSeq(s, 1, p) \o <<x>> \o SubSeq(s, p + 1, Len(s))

\* the modules given to ModuleContext::new: the empty module, the two above
\* as they are and with a custom section at every position, Small with two
\* custom sections, a module whose sections are out of order, one with a tag
\* section, and one whose type section holds a struct type
ContextInputs ==
    {<<>>, Full, Small}
    \cup {InsertAt(Full, p, Custom(1)) : p \in 0..Len(Full)}
    \cup {InsertAt(Small, p, Custom(1)) : p \in 0..Len(Small)}
    \cup {InsertAt(InsertAt(Small, p, Custom(1)), 0, Custom(2)) :
             p \in 2..Len(Small)}
    \cup {<<Opaque(9), Opaque(8), Opaque(5), Opaque(12), Custom(1), Opaque(4)>>,
          <<Opaque(5), Section(13, <<>>, <<13, 1>>), ExportSec>>,
          <<Section(1, <<[composite |-> "Struct", params |-> <<>>,
                          returns |-> <<>>]>>, <<>>), Opaque(5)>>}

\* the names and indices given to add_function_export: "f", a name the
\* parsed modules do not export, for the last function and for the index one
\* past the last function, and "g", which the parsed modules export, for
\* function 0
ExportCalls ==
    LET n == mc_ctx.value.import_func_count + Len(mc_ctx.value.functions)
    IN {<<"f", n>>, <<"g", 0>>} \cup {<<"f", i>> : i \in {j \in {n - 1} : j >= 0}}

\* a module is parsed, types, functions and exports are added to the context
\* in any order, the context is encoded and the output is parsed again
NextContext ==
    \/ \E module \in ContextInputs : ContextNew(module)
    \/ ContextAddFunctionType(<<"I32">>, <<"I64">>)
    \/ \E type_index \in {0, Len(mc_ctx.value.types)} :
          ContextAddFunction(type_index, <<>>, <<11>>)
    \/ \E call \in ExportCalls : ContextAddFunctionExport(call[1], call[2])
    \/ ContextEncode
    \/ ContextReparse

SpecContext == Init /\ [][NextContext]_vars

\* the characters of the strings given to the namespace filter
Chars == {"x", ":", "a"}

\* the filter entry "x::"
XColons == <<"x", ":", ":">>

\* the filters: empty, ["x::"], ["a"], ["a:", "x::"], ["x::a"] and [""]
Filters ==
    {<<>>, <<XColons>>, << <<"a">> >>, << <<"a", ":">>, XColons >>,
     << <<"x", ":", ":", "a">> >>, << <<>> >>}

\* the words with at most two bits set
TwoBits ==
    {[k \in BitIndex |-> IF k = a \/ k = b THEN 1 ELSE 0] : a, b \in BitIndex}

\* the values given to the encoders: the small integers of both signs, the
\* words with at most two bits set or at most two bits clear, and 624485
Words ==
    {FromInt(n) : n \in (-MaxSmall)..MaxSmall} \cup {FromInt(624485)}
    \cup TwoBits \cup {Not(w) : w \in TwoBits}

\* the pure functions are called with any argument
NextSdk ==
    \/ \E v \in ValType : SdkToByte(v)
    \/ \E byte \in U8 : SdkFromByte(byte)
    \/ \E value \in Words : SdkEncodeU32(value)
    \/ \E value \in Words : SdkEncodeI32(value)
    \/ \E namespace \in SeqsUpTo(Chars, MaxName), name \in SeqsUpTo(Chars, 1),
          filter \in Filters :
          SdkNamespaceMatchesFilter(namespace, name, filter)

SpecSdk == Init /\ [][NextSdk]_vars

\* the modules of plugins with both capabilities: hooks and the transform
\* export with the host imports, hooks without imports, the transform export
\* with the host imports, and the transform export with a foreign import
DualModules == {"dual", "observer", "prepend", "bad_import"}

\* one registry used for both: plugins with the capabilities LifecycleHooks
\* and ModuleTransform are registered, events are dispatched and modules are
\* transformed
NextDual ==
    \/ \E key \in DualModules :
          RegisterWasm(PluginInfo(key, <<LifecycleHooks, ModuleTransform>>),
                       ValidWasm(key), MaxObservers)
    \/ \E ev \in {ProcessEvent("ProcessSpawned", 1, FALSE),
                  ProcessEvent("ProcessExited", 1, FALSE),
                  ModuleEvent("ModuleLoaded", <<1, 0>>)} : DispatchStart(ev)
    \/ DispatchStep
    \/ DispatchReturn
    \/ \E bytes \in {<<>>, Ramp(MaxInput)} : TransformStart(bytes)
    \/ TransformStep
    \/ TransformReturn

SpecDual == Init /\ [][NextDual]_vars

\* plugins that empty the output buffer, write one, lack the export, or
\* cannot be instantiated
ChainModules ==
    {"erase", "append", "passthrough", "empty", "trap", "bad_import", "start_trap"}

\* the pipeline with these plugins
NextChain ==
    \/ \E key \in ChainModules :
          RegisterWasm(PluginInfo(key, <<ModuleTransform>>), ValidWasm(key), MaxChain)
    \/ \E bytes \in Inputs : TransformStart(bytes)
    \/ TransformStep
    \/ TransformReturn

SpecChain == Init /\ [][NextChain]_vars

\* the module of a plugin registered with the capabilities caps: one that
\* appends a byte for a transform plugin, one with every hook otherwise
ModuleFor(caps) == IF ModuleTransform \in Range(caps) THEN "append" ELSE "observer"

\* one registry on which names are registered more than once: plugins of
\* either name and any one capability, or none, are registered, modules are
\* transformed and an event is dispatched
NextRenamed ==
    \/ \E n \in Names,
          caps \in {<<>>, <<ModuleTransform>>, <<LifecycleHooks>>,
                    <<HostFunctions("ns1")>>} :
          Register(PluginInfo(n, caps), ModuleFor(caps), MaxChain)
    \/ DispatchStart(ProcessEvent("ProcessSpawned", 1, FALSE))
    \/ DispatchStep
    \/ DispatchReturn
    \/ \E bytes \in {<<>>, Ramp(MaxInput)} : TransformStart(bytes)
    \/ TransformStep
    \/ TransformReturn

SpecRenamed == Init /\ [][NextRenamed]_vars

\* a message whose read_ptr is only ever moved to offsets inside the buffer:
\* it is written to, read from, resources are added and taken, and every
\* seek goes to an offset of at most the length the buffer has then
NextBounded ==
    \/ \E buffer \in {<<>>, Ramp(MaxMessage)} : MessageNewFromVec(None, buffer)
    \/ \E buf \in {<<>>, <<MaxByte>>} : MessageWrite(buf)
    \/ \E buf_len \in 0..(MaxMessage + 1) : MessageRead(buf_len)
    \/ \E index \in 0..Len(message.buffer) : MessageSeek(index)
    \/ MessageAddResource("Module")
    \/ \E T \in {"Module", "TcpStream"}, index \in {0, MaxResources} :
          MessageTake(T, index)

SpecBounded == Init /\ [][NextBounded]_vars

----------------------------------------------------------------------------
(* Properties of the module-transform pipeline (SpecTransform) *)

LastOf(s) == s[Len(s)]

\* C1: transform_module applies the transform plugins in registration order:
\* the i-th pass is made by the i-th registered plugin, only after pass i-1 has
\* ended normally, on exactly the bytes pass i-1 left (the caller's bytes for
\* i = 1), and a successful call returns the bytes the last pass left (its
\* input when the chain is empty).
C1_ChainOrder ==
    /\ Len(t_trace) <= Len(module_transform_plugins)
    /\ \A i \in DOMAIN module_transform_plugins :
          \A j \in DOMAIN module_transform_plugins :
             i < j => module_transform_plugins[i].id < module_transform_plugins[j].id
    /\ t_pc = "loop" => t_idx = Len(t_trace) + 1
    /\ \A i \in DOMAIN t_trace :
          /\ t_trace[i].plugin = module_transform_plugins[i]
          /\ t_trace[i].input =
                IF i = 1 THEN module_bytes ELSE t_trace[i - 1].after
          /\ i > 1 => t_trace[i - 1].outcome \in {"returned", "skipped"}
    /\ (t_pc = "returned" /\ t_result.ok) =>
          /\ Len(t_trace) = Len(module_transform_plugins)
          /\ t_result.bytes =
                IF t_trace = <<>> THEN module_bytes ELSE LastOf(t_trace).after

\* a call over two different plugins that both rewrote the bytes has returned
C1_Witness ==
    /\ t_pc = "returned" /\ t_result.ok
    /\ Len(t_trace) = 2
    /\ t_trace[1].plugin.module = "append" /\ t_trace[2].plugin.module = "prepend"
    /\ t_trace[1].after # module_bytes
    /\ t_result.bytes # t_trace[1].after

\* C2: passthrough rule: after the export returned normally the current bytes
\* are the pass's output buffer if it is non-empty and the bytes the plugin
\* received otherwise; a pass without any write_output call is an identity step.
C2_Passthrough ==
    /\ \A i \in DOMAIN t_trace :
          t_trace[i].outcome = "returned" =>
             /\ t_trace[i].after =
                   IF t_trace[i].output # <<>> THEN t_trace[i].output
                   ELSE t_trace[i].input
             /\ t_trace[i].writes = 0 => t_trace[i].after = t_trace[i].input
    /\ (t_pc = "loop" /\ t_trace # <<>>) => current_bytes = LastOf(t_trace).after

\* a pass that never wrote kept non-empty bytes, and the next one replaced them
C2_Witness ==
    /\ Len(t_trace) = 2
    /\ t_trace[1].outcome = "returned" /\ t_trace[1].writes = 0
    /\ t_trace[1].input # <<>> /\ t_trace[1].after = t_trace[1].input
    /\ t_trace[2].outcome = "returned" /\ t_trace[2].output # <<>>
    /\ t_trace[2].after # t_trace[2].input

\* C3: a transform plugin without the lunatic_transform_module export is an
\* identity step: its pass leaves the bytes as they were, the call does not
\* fail because of it, and the plugins registered after it are still applied.
C3_MissingExportIsIdentity ==
    \A i \in DOMAIN t_trace :
       t_trace[i].outcome = "skipped" =>
          /\ t_trace[i].after = t_trace[i].input
          /\ i = Len(t_trace) =>
                \/ /\ t_pc = "loop" /\ t_idx = i + 1
                   /\ current_bytes = t_trace[i].input
                \/ /\ t_pc = "returned" /\ t_result = Ok(t_trace[i].input)
                   /\ i = Len(module_transform_plugins)
          /\ (t_pc = "returned" /\ i < Len(module_transform_plugins)) =>
                Len(t_trace) > i

\* a plugin without the export was followed by one that rewrote the bytes
C3_Witness ==
    /\ t_pc = "returned" /\ t_result.ok
    /\ Len(t_trace) = 2
    /\ t_trace[1].outcome = "skipped" /\ t_trace[1].input # <<>>
    /\ t_trace[2].outcome = "returned"
    /\ t_result.bytes = t_trace[2].output /\ t_result.bytes # module_bytes

\* C4: when a plugin's export traps or a host function it calls fails, the call
\* returns an error: that pass is the last one made and no bytes are returned.
C4_ErrorPropagates ==
    \A i \in DOMAIN t_trace :
       t_trace[i].outcome \in {"trap", "host_error"} =>
          /\ i = Len(t_trace)
          /\ t_pc = "returned"
          /\ ~t_result.ok
          /\ t_result.bytes = <<>>

\* the first of two plugins wrote an output and then trapped on non-empty bytes
C4_Witness ==
    /\ t_pc = "returned" /\ ~t_result.ok
    /\ Len(module_transform_plugins) = 2 /\ Len(t_trace) = 1
    /\ t_trace[1].outcome = "trap" /\ t_trace[1].output # <<>>
    /\ module_bytes # <<>>

----------------------------------------------------------------------------
(* Properties of the lifecycle dispatcher (SpecLifecycle) *)

\* C5: lifecycle robustness: whatever the plugins do (fail to instantiate,
\* lack the hook, lack memory for a module event, trap), dispatch goes through
\* the whole list and returns: when it has returned, every plugin of the
\* dispatcher was attempted, those after an offending plugin included, and
\* while it runs the next iteration or the return is always possible.
C5_LifecycleRobust ==
    /\ d_pc \in {"idle", "loop", "returned"}
    /\ d_pc = "loop" =>
          /\ d_idx = Len(d_trace) + 1
          /\ d_idx <= Len(dispatcher_plugins) + 1
    /\ \A i \in DOMAIN d_trace :
          /\ i <= Len(dispatcher_plugins)
          /\ d_trace[i].plugin = dispatcher_plugins[i]
    /\ d_pc = "returned" => Len(d_trace) = Len(dispatcher_plugins)

\* a trapping hook was followed by a hook that ran, and dispatch returned
C5_Witness ==
    /\ d_pc = "returned"
    /\ Len(d_trace) = 2
    /\ d_trace[1].outcome = "trapped"
    /\ d_trace[2].outcome = "returned"

----------------------------------------------------------------------------
(* Properties of the registry (Spec) *)

Declares(info, cap) == cap \in Range(info.capabilities)

HostList(map, ns) == IF ns \in DOMAIN map THEN map[ns] ELSE <<>>

\* every plugin some capability index holds
Indexed ==
    Range(module_transform_plugins) \cup Range(lifecycle_plugins)
    \cup Range(dispatcher_plugins)
    \cup UNION {Range(host_function_plugins[ns]) : ns \in DOMAIN host_function_plugins}

FailedRegisterWasm(call) == call.op = "register_wasm" /\ ~call.ok

\* C6: a register_wasm whose bytes do not compile returns an error and leaves
\* the name map, the transform list, the host-function map and the lifecycle
\* dispatcher as they were, whatever the PluginInfo declares.
C6_FailedCompileChangesNothing ==
    [][FailedRegisterWasm(last_call') =>
          /\ plugins' = plugins
          /\ module_transform_plugins' = module_transform_plugins
          /\ host_function_plugins' = host_function_plugins
          /\ lifecycle_plugins' = lifecycle_plugins
          /\ dispatcher_plugins' = dispatcher_plugins
          /\ Cardinality(DOMAIN plugins') = Cardinality(DOMAIN plugins)]_vars

\* a plugin declaring transform, lifecycle and host-function capabilities was
\* refused on a registry that holds one other plugin
C6_Witness ==
    /\ FailedRegisterWasm(last_call)
    /\ Declares(last_call.info, ModuleTransform)
    /\ Declares(last_call.info, LifecycleHooks)
    /\ Declares(last_call.info, HostFunctions("ns2"))
    /\ len = 1 /\ last_call.info.name \notin DOMAIN plugins
    /\ module_transform_plugins = <<>> /\ dispatcher_plugins = <<>>
    /\ DOMAIN host_function_plugins = {}

\* C7: capability routing: a successful registration of p appends p to the
\* transform list once per declared ModuleTransform (so iff it declares it),
\* to host_function_plugins[ns] once per declared HostFunctions(ns), to the
\* lifecycle dispatcher once per declared LifecycleHooks, changes no index for
\* any other capability, and p is held under exactly one name of the name map.
C7_CapabilityRouting ==
    [][next_id' = next_id + 1 =>
          LET info == last_call'.info
              p == plugins'[info.name]
              caps == info.capabilities
          IN /\ last_call'.ok
             /\ p.id = next_id /\ p.info = info
             /\ module_transform_plugins' =
                   module_transform_plugins \o Repeat(p, Count(caps, ModuleTransform))
             /\ dispatcher_plugins' =
                   dispatcher_plugins \o Repeat(p, Count(caps, LifecycleHooks))
             /\ lifecycle_plugins' =
                   lifecycle_plugins \o Repeat(p, Count(caps, LifecycleHooks))
             /\ DOMAIN host_function_plugins' =
                   DOMAIN host_function_plugins
                   \cup {ns \in Namespaces : Declares(info, HostFunctions(ns))}
             /\ \A ns \in Namespaces :
                   HostList(host_function_plugins', ns) =
                      HostList(host_function_plugins, ns)
                      \o Repeat(p, Count(caps, HostFunctions(ns)))
             /\ DOMAIN plugins' = DOMAIN plugins \cup {info.name}
             /\ {n \in DOMAIN plugins' : plugins'[n] = p} = {info.name}]_vars

\* a plugin declaring four capabilities is in each matching index and counts once
C7_Witness ==
    /\ last_call.ok /\ next_id = 1 /\ len = 1
    /\ Declares(last_call.info, Networking)
    /\ Len(module_transform_plugins) = 1
    /\ Len(dispatcher_plugins) = 1
    /\ DOMAIN host_function_plugins = {"ns2"}
    /\ module_transform_plugins[1] = dispatcher_plugins[1]
    /\ host_function_plugins["ns2"] = <<module_transform_plugins[1]>>

\* C8: every plugin reachable through a capability index is reachable by
\* name: get(p.info.name) returns that plugin.
C8_IndexedReachableByName ==
    \A p \in Indexed : get(p.info.name) = <<p>>

\* C9: a successful registration removes nothing: every plugin get(name)
\* returned before is still returned for that name, and every entry of every
\* capability index is still at its position.
C9_AddingNeverRemoves ==
    [][next_id' = next_id + 1 =>
          /\ \A n \in DOMAIN plugins :
                n \in DOMAIN plugins' /\ plugins'[n] = plugins[n]
          /\ \A i \in DOMAIN module_transform_plugins :
                module_transform_plugins'[i] = module_transform_plugins[i]
          /\ \A i \in DOMAIN dispatcher_plugins :
                dispatcher_plugins'[i] = dispatcher_plugins[i]
          /\ \A i \in DOMAIN lifecycle_plugins :
                lifecycle_plugins'[i] = lifecycle_plugins[i]
          /\ \A ns \in DOMAIN host_function_plugins :
                \A i \in DOMAIN host_function_plugins[ns] :
                   host_function_plugins'[ns][i] = host_function_plugins[ns][i]]_vars

\* C10: the dispatcher's list holds exactly the plugins of the registry whose
\* capability list includes LifecycleHooks.
C10_DispatcherExact ==
    Range(dispatcher_plugins) =
       {plugins[n] : n \in {m \in DOMAIN plugins :
                               Declares(plugins[m].info, LifecycleHooks)}}

----------------------------------------------------------------------------
(* Properties of the host functions of a transform pass (SpecHostAbi) *)

\* [src_ptr, src_ptr + length) lies inside the memory the plugin exports
InsideMemory(store, src_ptr, length) ==
    /\ store.has_memory
    /\ src_ptr >= 0 /\ length >= 0
    /\ src_ptr + length <= Len(store.memory)

\* C11: for every pair of i32 arguments write_output copies the bytes of
\* [src_ptr, src_ptr + len) into the output buffer when that range lies
\* inside the plugin's exported memory; otherwise (a negative argument, a
\* sum past the end, no memory) it returns an error, nothing of the store
\* changes, the output buffer included, and the pass makes transform_module
\* fail without replacing the current bytes.
C11_WriteOutputBoundsChecked ==
    [][/\ (h_call.fn = "none" /\ h_call'.fn = "write_output") =>
             LET src_ptr == h_call'.a
                 length == h_call'.b
             IN IF InsideMemory(h_store, src_ptr, length)
                THEN /\ h_call'.ok
                     /\ h_store' =
                           [h_store EXCEPT
                              !.output_bytes =
                                 [i \in 1..length |-> h_store.memory[src_ptr + i]],
                              !.writes = @ + 1]
                ELSE /\ ~h_call'.ok
                     /\ h_store' = [h_store EXCEPT !.status = "host_error"]
       /\ (h_pc = "running" /\ h_pc' = "done" /\ h_store.status = "host_error") =>
             /\ Propagates(h_pass')
             /\ h_pass'.after = h_store.input_bytes
             /\ h_pass'.output = h_store.output_bytes]_vars

\* a call with two negative arguments, whose sum overflows usize, was
\* rejected after an earlier call had set the output buffer
C11_Witness ==
    /\ h_call.fn = "write_output" /\ ~h_call.ok
    /\ h_call.a < 0 /\ h_call.b < 0
    /\ AsUsize(h_call.a) + AsUsize(h_call.b) > UsizeMax
    /\ h_store.status = "host_error"
    /\ h_store.writes = 1 /\ h_store.output_bytes # <<>>

\* C12: input_size() returns the length of the current bytes as a
\* non-negative i32: the value is never negative and equals the number of
\* bytes that read_input copies, the length of input_bytes.
C12_InputSizeIsLength ==
    (h_call.fn = "input_size") =>
        /\ h_call.ret >= 0
        /\ h_call.ret = Len(h_store.input_bytes)

----------------------------------------------------------------------------
(* Isolation of the transform passes (SpecTransform) *)

\* what transform_module returns for a transform list and an input, as a
\* function of these two alone
RECURSIVE ChainResult(_, _)
ChainResult(list, bytes) ==
    IF list = <<>> THEN Ok(bytes)
    ELSE LET pass == TransformPass(Head(list), bytes, bytes)
         IN IF Propagates(pass) THEN Err
            ELSE ChainResult(Tail(list), pass.after)

\* C13: every pass starts from a fresh store whose host state is the current
\* bytes as input and an empty output buffer, with the module's initial
\* memory, whatever the passes and calls before it did; and the result of
\* transform_module is a function of the registry's transform list and the
\* input alone, the same whether or not other inputs were transformed
\* before.
C13_TransformIsolation ==
    /\ \A i \in DOMAIN t_trace :
          LET module == Module(t_trace[i].plugin.module)
          IN t_trace[i].fresh =
                [input_bytes |-> IF i = 1 THEN module_bytes
                                 ELSE t_trace[i - 1].after,
                 output_bytes |-> <<>>,
                 has_memory |-> module.has_memory,
                 memory |-> [j \in 1..(module.pages * PageSize) |-> 0],
                 size |-> 0, writes |-> 0, status |-> "ok"]
    /\ t_pc = "returned" =>
          t_result = ChainResult(module_transform_plugins, module_bytes)

\* a call made after an earlier call on the same registry: its second pass
\* started fresh although the first pass had filled its output buffer
C13_Witness ==
    /\ t_earlier /\ t_pc = "returned" /\ t_result.ok
    /\ Len(t_trace) = 2
    /\ t_trace[1].output # <<>>
    /\ t_trace[2].fresh.output_bytes = <<>>
    /\ t_trace[2].fresh.input_bytes = t_trace[1].output
    /\ t_trace[2].outcome = "returned" /\ t_trace[2].writes = 0

----------------------------------------------------------------------------
(* Properties of the lifecycle dispatcher (SpecLifecycle) *)

\* the attempts of the call in which a hook function was called
HookCalls == {i \in DOMAIN d_trace : d_trace[i].hook # ""}

\* C14: within one dispatch call the lifecycle plugins are attempted in
\* registration order, one attempt after the other, each plugin exactly once,
\* and the hook of a plugin is called at most once for the event.
C14_EachPluginOnceInOrder ==
    /\ \A i \in DOMAIN d_trace :
          /\ i <= Len(dispatcher_plugins)
          /\ d_trace[i].plugin = dispatcher_plugins[i]
    /\ d_pc = "loop" => d_idx = Len(d_trace) + 1
    /\ d_pc = "returned" => Len(d_trace) = Len(dispatcher_plugins)
    /\ \A i, j \in DOMAIN d_trace :
          d_trace[i].plugin = d_trace[j].plugin => i = j
    /\ \A i, j \in HookCalls :
          d_trace[i].plugin = d_trace[j].plugin => i = j

\* the memory of a new instance of the module (the modules of the catalogue
\* have no data segments and keep their mutable state in memory)
InitialMemory(module) == [j \in 1..(module.pages * PageSize) |-> 0]

\* C15 as stated: at the entry of every hook call the plugin's memory holds
\* the module's initial values, however many events were dispatched before.
C15_InitialAtHookEntry ==
    \A i \in HookCalls :
       d_trace[i].memory = InitialMemory(Module(d_trace[i].plugin.module))

\* C15, amended: at the entry of every hook call the plugin's memory holds
\* the module's initial values, except for the bytes of the module name that
\* the dispatch of a module event has written at offset 0, however many
\* events were dispatched before and whatever the hooks called before wrote.
C15_InitialAtHookEntryButName ==
    \A i \in HookCalls :
       LET initial == InitialMemory(Module(d_trace[i].plugin.module))
           name == IF event.kind \in ModuleKinds THEN event.module_name ELSE <<>>
       IN d_trace[i].memory =
             [j \in DOMAIN initial |->
                 IF j <= Len(name) THEN name[j] ELSE initial[j]]

\* after an earlier dispatch, two hooks in a row were entered with the
\* initial memory although the first had written to its memory
C15_Witness ==
    /\ d_earlier
    /\ Len(d_trace) >= 2
    /\ {1, 2} \subseteq HookCalls
    /\ d_trace[1].plugin.module = d_trace[2].plugin.module
    /\ d_trace[1].left # d_trace[1].memory
    /\ d_trace[2].memory = InitialMemory(Module(d_trace[2].plugin.module))

\* the six export names, by event variant
ExportTable ==
    [kind \in ProcessKinds \cup ModuleKinds |->
        IF kind = "ProcessSpawning" THEN "lunatic_on_process_spawning"
        ELSE IF kind = "ProcessSpawned" THEN "lunatic_on_process_spawned"
        ELSE IF kind = "ProcessExiting" THEN "lunatic_on_process_exiting"
        ELSE IF kind = "ProcessExited" THEN "lunatic_on_process_exited"
        ELSE IF kind = "ModuleLoading" THEN "lunatic_on_module_loading"
        ELSE "lunatic_on_module_loaded"]

\* C16: the export name of an event is the table's entry for its variant,
\* whatever the payload (process id, error, module name); events of different
\* variants have different export names, six in all; and the function a
\* dispatch calls in a plugin is the export named for the dispatched event's
\* variant, which the plugin exports, and no other.
C16_FixedExportTable ==
    /\ \A ev \in Events : event_export_name(ev) = ExportTable[ev.kind]
    /\ \A e1, e2 \in Events :
          (event_export_name(e1) = event_export_name(e2)) <=> (e1.kind = e2.kind)
    /\ Cardinality({event_export_name(ev) : ev \in Events}) = 6
    /\ \A i \in HookCalls :
          /\ d_trace[i].hook = ExportTable[event.kind]
          /\ d_trace[i].hook \in DOMAIN Module(d_trace[i].plugin.module).exports

\* a plugin that exports all six hooks was called for ProcessExited, with an
\* error in the payload, through lunatic_on_process_exited
C16_Witness ==
    /\ event.kind = "ProcessExited" /\ event.error
    /\ \E i \in HookCalls :
          /\ DOMAIN Module(d_trace[i].plugin.module).exports = HookExports
          /\ d_trace[i].hook = "lunatic_on_process_exited"

\* the values of a u64 and of an i64 (as wide as usize)
U64 == 0 .. UsizeMax
I64 == -((UsizeMax + 1) \div 2) .. (UsizeMax - 1) \div 2

\* the i64 v has the bit pattern of the u64 n
SamePattern(v, n) == v \in I64 /\ v % (UsizeMax + 1) = n

\* build_args for every process event: one i64 with the pattern of the id,
\* negative from 2^63 on, and the same with and without an error
ProcessArgsOfEveryId ==
    \A kind \in ProcessKinds, n \in U64 :
       LET store == NewStore(Module("empty"), <<>>)
           built == build_args(ProcessEvent(kind, n, FALSE), store)
       IN /\ built.ok
          /\ Len(built.args) = 1
          /\ built.args[1].ty = "i64"
          /\ SamePattern(built.args[1].v, n)
          /\ (n > (UsizeMax - 1) \div 2) <=> (built.args[1].v < 0)
          /\ build_args(ProcessEvent(kind, n, TRUE), store) = built

\* C17: for each of the four process events and every u64 process id the
\* hook receives exactly one argument, an i64 with the bit pattern of the id
\* (ids from 2^63 on arrive negative and convert back to the id), and for
\* ProcessExited the arguments do not depend on the error.
C17_ProcessIdAsI64 ==
    /\ ProcessArgsOfEveryId
    /\ \A i \in HookCalls :
          event.kind \in ProcessKinds =>
             /\ Len(d_trace[i].args) = 1
             /\ d_trace[i].args[1].ty = "i64"
             /\ SamePattern(d_trace[i].args[1].v, event.process_id)

\* a hook was called with a negative i64 for the id 2^63
C17_Witness ==
    /\ event.kind \in ProcessKinds
    /\ event.process_id = (UsizeMax + 1) \div 2
    /\ \E i \in HookCalls :
          d_trace[i].outcome = "returned" /\ d_trace[i].args[1].v < 0

----------------------------------------------------------------------------
(* Properties of DataMessage (SpecMessage) *)

\* C19: write always succeeds, returns the length of the slice it was given
\* and appends the slice to the end of the buffer, so that the buffer is the
\* initial buffer followed by the written slices in call order; it changes
\* neither read_ptr nor the tag nor the resource slots.
C19_WriteAppends ==
    [][/\ (io'.op = "write") =>
             /\ io'.ok
             /\ io'.ret = Len(io'.buf)
             /\ message'.buffer = message.buffer \o io'.buf
             /\ message'.read_ptr = message.read_ptr
             /\ message'.tag = message.tag
             /\ message'.resources = message.resources
       /\ message'.buffer = io'.initial \o io'.written]_vars

\* a second write, of other bytes than the first, to a message with a tag
\* and a resource whose read_ptr is past the start
C19_Witness ==
    /\ io.op = "write" /\ io.buf # <<>>
    /\ Len(io.written) > Len(io.buf)
    /\ io.written[1] # io.buf[1]
    /\ message.buffer = io.written
    /\ message.tag # None /\ message.resources # <<>>
    /\ message.read_ptr > 0

\* C20: a read with read_ptr <= len(buffer) into a destination of length m
\* transfers the n = min(m, len(buffer) - read_ptr) bytes
\* buffer[read_ptr .. read_ptr + n), returns n, advances read_ptr by n and
\* leaves the buffer unchanged; at the end of the buffer it returns 0; and a
\* read that follows a read returns the part of the buffer that comes next.
C20_ReadTransfers ==
    [][(io'.op = "read" /\ message.read_ptr <= Len(message.buffer)) =>
          LET rest == Len(message.buffer) - message.read_ptr
              n == IF io'.arg < rest THEN io'.arg ELSE rest
          IN /\ io'.ok
             /\ io'.ret = n
             /\ Len(io'.data) = n
             /\ \A j \in 1..n : io'.data[j] = message.buffer[message.read_ptr + j]
             /\ message'.read_ptr = message.read_ptr + n
             /\ message' = [message EXCEPT !.read_ptr = @ + n]
             /\ (rest = 0) => (io'.ret = 0)
             /\ (io.op = "read" /\ io.ok) =>
                   /\ io'.from = io.from + io.ret
                   /\ io.data \o io'.data =
                         SubSeq(message.buffer, io.from + 1,
                                io.from + io.ret + n)]_vars

\* two reads in a row returned the first and the second byte of the buffer,
\* the second read with a destination longer than what was left
C20_Witness ==
    /\ io.op = "read" /\ io.ok
    /\ io.from = 1 /\ io.ret = 1 /\ io.arg > io.ret
    /\ message.read_ptr = Len(message.buffer)
    /\ Len(message.buffer) = 2
    /\ message.buffer[1] # message.buffer[2]
    /\ io.data = <<message.buffer[2]>>

\* C21: seek is never rejected and sets read_ptr to the given offset, whatever
\* the offset, changing nothing else; a read attempted while
\* read_ptr > len(buffer) returns an error and leaves read_ptr and the buffer
\* unchanged, and a read at read_ptr = len(buffer) returns 0.
C21_SeekUncheckedReadChecked ==
    [][/\ (io'.op = "seek") =>
             /\ io'.ok
             /\ message'.read_ptr = io'.arg
             /\ message' = [message EXCEPT !.read_ptr = io'.arg]
       /\ (io'.op = "read" /\ message.read_ptr > Len(message.buffer)) =>
             /\ ~io'.ok
             /\ message'.read_ptr = message.read_ptr
             /\ message'.buffer = message.buffer
       /\ (io'.op = "read" /\ message.read_ptr = Len(message.buffer)) =>
             /\ io'.ok
             /\ io'.ret = 0]_vars

\* a read failed after a seek past the end of a buffer that holds bytes, with
\* a destination that has room
C21_Witness ==
    /\ io.op = "read" /\ ~io.ok /\ io.arg > 0
    /\ message.buffer # <<>>
    /\ message.read_ptr > Len(message.buffer)
    /\ io.from = message.read_ptr

\* C22: on a message created empty, a read of len(bytes) bytes that follows
\* write(bytes) and seek(0) returns exactly the written bytes; and after
\* seek(k) with k <= len(buffer) a read returns the content of the buffer
\* from position k on, however much was read before the seek.
C22_SeekThenRead ==
    [][(io.op = "seek" /\ io'.op = "read") =>
          LET k == io.arg
              rest == Len(message.buffer) - k
              n == IF io'.arg < rest THEN io'.arg ELSE rest
          IN /\ (k <= Len(message.buffer)) =>
                   /\ io'.ok
                   /\ io'.ret = n
                   /\ io'.data = SubSeq(message.buffer, k + 1, k + n)
             /\ (io.initial = <<>> /\ k = 0 /\ io'.arg = Len(io.written)) =>
                   /\ io'.ok
                   /\ io'.data = io.written]_vars

\* a message created empty was written to and read from, and after seek(0) a
\* read of as many bytes as were written returned them again
C22_Witness ==
    /\ io.op = "read" /\ io.ok /\ log.after_seek /\ log.read_any
    /\ io.initial = <<>> /\ Len(io.written) = MaxMessage
    /\ io.written[1] # io.written[MaxMessage]
    /\ io.from = 0 /\ io.arg = Len(io.written)
    /\ io.data = io.written

----------------------------------------------------------------------------
(* Properties of the resources of a DataMessage (SpecResources) *)

\* C23: on one message the k-th call to add_resource returns index k - 1, so
\* that the returned indices are strictly increasing, whatever takes were
\* made in between: a take never frees an index for reuse.
C23_AddResourceMonotonic ==
    /\ \A k \in 1..Len(log.adds) : log.adds[k].ret = k - 1
    /\ \A k, l \in 1..Len(log.adds) :
          (k < l) => (log.adds[k].ret < log.adds[l].ret)

\* the second add_resource came after the first resource had been taken
C23_Witness ==
    /\ io.op = "add_resource" /\ io.ret = 1
    /\ Len(log.adds) = 2 /\ Len(message.resources) = 2
    /\ 0 \in log.asked
    /\ message.resources[1] = None
    /\ message.resources[2] = Some(log.adds[2].resource)

\* C24: a resource is taken at most once. After add_resource(r) returned i,
\* the first take at index i that asks for r's type returns Some(r) and leaves
\* None in slot i, and every take at index i after that one, whatever type it
\* asks for, returns None.
C24_TakenAtMostOnce ==
    [][(io'.op = "take") =>
          \A k \in 1..Len(log.adds) :
             LET i == log.adds[k].ret
                 r == log.adds[k].resource
             IN (io'.arg = i) =>
                   /\ (log'.T = r.kind /\ i \notin log.asked) =>
                         /\ log'.taken = Some(r)
                         /\ message'.resources[i + 1] = None
                   /\ (i \in log.asked) =>
                         /\ log'.taken = None
                         /\ message'.resources[i + 1] = None]_vars

\* the second resource was asked for with its own type a second time and was
\* not handed out again
C24_Witness ==
    /\ io.op = "take" /\ io.arg = 1
    /\ Len(log.adds) = 2 /\ log.adds[2].ret = 1
    /\ log.T = log.adds[2].resource.kind
    /\ log.T # log.adds[1].resource.kind
    /\ message.resources[1] # None
    /\ log.asked = {1}
    /\ log.taken = None
    /\ message.resources[2] = None

\* C25: a take at index i that asks for another type than that of the
\* resource stored there returns None and puts the resource back: slot i
\* holds the same resource afterwards, and a take at i that then asks for
\* the resource's own type returns it.
C25_MismatchRestoresSlot ==
    [][(io'.op = "take" /\ io'.arg < Len(message.resources)) =>
          LET i == io'.arg
              slot == message.resources[i + 1]
          IN /\ (slot # None /\ log'.T # slot[1].kind) =>
                   /\ log'.taken = None
                   /\ message'.resources[i + 1] = slot
                   /\ message' = message
             /\ (/\ io.op = "take" /\ io.arg = i /\ log.taken = None
                 /\ slot # None /\ log.T # slot[1].kind
                 /\ log'.T = slot[1].kind) =>
                   /\ log'.taken = slot
                   /\ message'.resources[i + 1] = None]_vars

\* a Module was asked for as a TcpStream and is still in its slot, next to a
\* slot that a take has emptied
C25_Witness ==
    /\ io.op = "take" /\ io.arg = 1 /\ log.T = "TcpStream"
    /\ log.taken = None
    /\ Len(message.resources) = 2 /\ Len(log.adds) = 2
    /\ message.resources[1] = None
    /\ message.resources[2] = Some(Resource("Module", 1))
    /\ log.adds[2].resource = Resource("Module", 1)
    /\ 1 \notin log.asked

\* C26: a take at index i, whether it succeeds, asks for the wrong type,
\* finds the slot empty or is out of range, changes neither the number of
\* resource slots nor the content of any slot other than i, and changes
\* neither the tag nor the buffer nor read_ptr; a take at an index that is
\* out of range returns None and changes nothing.
C26_TakeFrame ==
    [][(io'.op = "take") =>
          /\ Len(message'.resources) = Len(message.resources)
          /\ \A j \in 1..Len(message.resources) :
                (j # io'.arg + 1) =>
                   (message'.resources[j] = message.resources[j])
          /\ message'.tag = message.tag
          /\ message'.buffer = message.buffer
          /\ message'.read_ptr = message.read_ptr
          /\ (io'.arg >= Len(message.resources)) =>
                /\ log'.taken = None
                /\ message' = message]_vars

\* the first of two resources was handed out, from a message with a tag,
\* bytes in its buffer and read_ptr past them, and the second is in its slot
C26_Witness ==
    /\ io.op = "take" /\ io.arg = 0
    /\ Len(message.resources) = 2 /\ Len(log.adds) = 2
    /\ log.taken = Some(log.adds[1].resource)
    /\ message.resources[1] = None
    /\ message.resources[2] = Some(log.adds[2].resource)
    /\ message.tag # None
    /\ message.buffer # <<>>
    /\ message.read_ptr > Len(message.buffer)

----------------------------------------------------------------------------
(* Properties of ModuleContext (SpecContext) *)

\* the place of a section id in the order of the binary format, custom
\* sections counted last
Rank(id) ==
    CASE id \in 1..9 -> id
      [] id = 12 -> 10
      [] id = 10 -> 11
      [] id = 11 -> 12
      [] OTHER -> 13

\* the standard sections of the binary are in the order of the binary
\* format, each at most once, and no custom section comes before a
\* standard one
InFormatOrder(binary) ==
    \A i, j \in 1..Len(binary) :
       (i < j) =>
          \/ Rank(binary[i].id) < Rank(binary[j].id)
          \/ binary[i].id = 0 /\ binary[j].id = 0

\* the binary without its custom sections
RECURSIVE Standard(_)
Standard(binary) ==
    IF binary = <<>> THEN <<>>
    ELSE IF Head(binary).id = 0 THEN Standard(Tail(binary))
    ELSE <<Head(binary)>> \o Standard(Tail(binary))

\* C27: for every parsed module whose standard sections are in the order of
\* the binary format, wherever its custom sections are, encode emits type,
\* import, function, table, memory, global, export, start, element,
\* data-count, code, data in that order and the custom sections after them;
\* no table, memory, global, start, element or data-count section comes
\* after the code section.
C27_EncodeInFormatOrder ==
    (mc_output # None /\ InFormatOrder(Standard(mc_module))) =>
       InFormatOrder(mc_output[1])

\* how many sections of the binary have this id and these bytes
Occurrences(binary, id, data) ==
    Cardinality({i \in 1..Len(binary) :
                    binary[i].id = id /\ binary[i].data = data})

\* C28: every table, memory, global, start, element, data, data-count and
\* custom section of the parsed input is emitted by encode exactly once, with
\* the same id and the same bytes, and encode emits no other section of
\* these kinds, whatever add_function_type, add_function and
\* add_function_export calls were made in between.
C28_RawSectionsPreserved ==
    (mc_output # None) =>
       /\ \A i \in 1..Len(mc_module) :
             (mc_module[i].id \in RawIds) =>
                Occurrences(mc_output[1], mc_module[i].id, mc_module[i].data)
                   = Occurrences(mc_module, mc_module[i].id, mc_module[i].data)
       /\ \A j \in 1..Len(mc_output[1]) :
             (mc_output[1][j].id \in RawIds) =>
                Occurrences(mc_module, mc_output[1][j].id, mc_output[1][j].data)
                   = Occurrences(mc_output[1], mc_output[1][j].id,
                                 mc_output[1][j].data)

\* a module with a section of each of the eight kinds, a custom section in
\* front, was encoded after a type, a function and an export were added
C28_Witness ==
    /\ mc_output # None
    /\ mc_module # <<>> /\ mc_module[1].id = 0
    /\ RawIds \subseteq {mc_module[i].id : i \in 1..Len(mc_module)}
    /\ Len(mc_ctx.value.types) > Len(AtParse.types)
    /\ Len(mc_ctx.value.functions) > Len(AtParse.functions)
    /\ Len(mc_ctx.value.exports) > Len(AtParse.exports)

\* C29: in every state reached through new and the add_* operations, the
\* func_index of every NewFunction export is below
\* import_func_count + |functions|: each added export names an imported or a
\* defined function of the module.
C29_NewExportsInRange ==
    mc_ctx.ok =>
       \A i \in 1..Len(mc_ctx.value.exports) :
          (mc_ctx.value.exports[i].variant = "NewFunction") =>
             mc_ctx.value.exports[i].index
                < mc_ctx.value.import_func_count + Len(mc_ctx.value.functions)

\* the number of function imports of the binary
FunctionImports(binary) ==
    IF \E i \in 1..Len(binary) : binary[i].id = 2
    THEN LET imports ==
                binary[CHOOSE i \in 1..Len(binary) : binary[i].id = 2].items
         IN Cardinality({k \in 1..Len(imports) : imports[k].ty.kind = "Func"})
    ELSE 0

\* the index given to the last NewFunction export of this name, if there is
\* one
LastNewExport(ctx, name) ==
    LET at == {i \in 1..Len(ctx.exports) :
                  /\ ctx.exports[i].variant = "NewFunction"
                  /\ ctx.exports[i].name = name}
    IN IF at = {} THEN None
       ELSE Some(ctx.exports[CHOOSE i \in at : \A j \in at : j <= i].index)

\* C30: on a parsed module with any number of function imports and defined
\* functions, add_function returns import_func_count plus the number of
\* functions defined before the call; after add_function_export("f", idx)
\* with that index, function_by_name on the edited context does not see the
\* new export, and parsing the encoded binary again yields
\* function_by_name("f") = Some(idx).
C30_AddedExportAfterReparse ==
    [][/\ (mc_call'.op = "add_function") =>
             mc_call'.ret = FunctionImports(mc_module)
                               + Len(mc_ctx.value.functions)
       /\ (mc_call'.op = "add_function_export") =>
             /\ function_by_name(mc_ctx'.value, mc_call'.name)
                   = function_by_name(AtParse, mc_call'.name)
             /\ function_by_name(mc_ctx'.value, "f") = None
       /\ (mc_call'.op = "reparse") =>
             /\ mc_reparsed'[1].ok
             /\ \A name \in {"f", "g"} :
                   (LastNewExport(mc_ctx.value, name) # None) =>
                      function_by_name(mc_reparsed'[1].value, name)
                         = LastNewExport(mc_ctx.value, name)]_vars

\* on the module with two function imports and one defined function, a type
\* and a function were added, the function got index 3 and was exported as
\* "f"; the context does not know "f", the context parsed from the encoded
\* binary does
C30_Witness ==
    /\ mc_reparsed # None
    /\ FunctionImports(mc_module) = 2
    /\ Len(mc_ctx.value.types) = Len(AtParse.types) + 1
    /\ Len(mc_ctx.value.functions) = Len(AtParse.functions) + 1
    /\ LastNewExport(mc_ctx.value, "f")
          = Some(FunctionImports(mc_module) + Len(AtParse.functions))
    /\ function_by_name(mc_ctx.value, "f") = None
    /\ function_by_name(mc_reparsed[1].value, "f")
          = Some(FunctionImports(mc_module) + Len(AtParse.functions))
    /\ function_by_name(mc_reparsed[1].value, "g") = Some(0)

----------------------------------------------------------------------------
(* Properties of the SDK codecs and of the namespace filter (SpecSdk) *)

\* the bytes of the encoding table
TableBytes == {to_byte(v) : v \in ValType}

\* C31: ValType and its encoding byte are in bijection: from_byte gives back
\* every value type from the byte to_byte gave for it, the seven bytes are
\* pairwise distinct, and from_byte returns an error for each of the other
\* 249 bytes.
C31_ValTypeBijection ==
    /\ sdk.fn = "to_byte" =>
          /\ from_byte(sdk.ret) = Fine(sdk.arg)
          /\ \A w \in ValType : w # sdk.arg => to_byte(w) # sdk.ret
    /\ sdk.fn = "from_byte" =>
          /\ sdk.ret.ok <=> sdk.arg \in TableBytes
          /\ sdk.ret.ok => sdk.ret.value \in ValType /\ to_byte(sdk.ret.value) = sdk.arg
    /\ Cardinality(TableBytes) = 7
    /\ Cardinality({b \in U8 : ~from_byte(b).ok}) = 249

\* from_byte was called with a byte outside the table, here 0x00
C31_Witness ==
    sdk.fn = "from_byte" /\ sdk.arg = 0 /\ ~sdk.ret.ok

\* bit k of the concatenated 7-bit payloads of bytes, least significant
\* group first
PayloadBit(bytes, k) == (bytes[k \div 7 + 1] \div Pow2(k % 7)) % 2

\* C32: encode_leb128_u32 terminates for every u32 and returns 1 to 5 bytes;
\* exactly the non-final bytes have the continuation bit 0x80 set, and the
\* 7-bit payloads, least significant group first, reassemble to the value
\* (0 -> [0x00], 128 -> [0x80, 0x01], 624485 -> [0xE5, 0x8E, 0x26]).
C32_Leb128U32 ==
    sdk.fn = "encode_leb128_u32" =>
        LET bytes == sdk.ret.bytes
            n == Len(bytes)
        IN /\ sdk.ret.done
           /\ n \in 1..5
           /\ \A i \in 1..n : bytes[i] \in U8 /\ (bytes[i] >= 128 <=> i < n)
           /\ \A k \in 0..(7 * n - 1) :
                 PayloadBit(bytes, k) = IF k < WordBits THEN sdk.arg[k] ELSE 0
           /\ \A k \in BitIndex : k >= 7 * n => sdk.arg[k] = 0
           /\ sdk.arg = FromInt(0) => bytes = <<0>>
           /\ sdk.arg = FromInt(128) => bytes = <<128, 1>>
           /\ sdk.arg = FromInt(624485) => bytes = <<229, 142, 38>>

\* 0xFFFFFFFF was encoded, in five bytes
C32_Witness ==
    /\ sdk.fn = "encode_leb128_u32"
    /\ sdk.arg = MinusOne
    /\ sdk.ret.done
    /\ sdk.ret.bytes = <<255, 255, 255, 255, 15>>

\* the i32 value is the sign extension of its low 7 * m bits
FitsSigned(value, m) ==
    \A k \in BitIndex : k >= 7 * m - 1 => value[k] = value[WordBits - 1]

\* the least number of bytes a signed LEB128 encoding of value can have
MinimalLength(value) ==
    CHOOSE m \in 1..5 :
        FitsSigned(value, m) /\ \A l \in 1..(m - 1) : ~FitsSigned(value, l)

\* C33: encode_leb128_i32 terminates for every i32 and returns 1 to 5 bytes
\* that decode back to the value by signed LEB128 decoding (the payloads,
\* least significant group first, sign-extended from bit 6 of the final
\* byte), and no shorter encoding of the value exists
\* (-1 -> [0x7F], -128 -> [0x80, 0x7F]).
C33_Leb128I32 ==
    sdk.fn = "encode_leb128_i32" =>
        LET bytes == sdk.ret.bytes
            n == Len(bytes)
        IN /\ sdk.ret.done
           /\ n \in 1..5
           /\ \A i \in 1..n : bytes[i] \in U8 /\ (bytes[i] >= 128 <=> i < n)
           /\ \A k \in BitIndex :
                 sdk.arg[k] = IF k < 7 * n THEN PayloadBit(bytes, k)
                              ELSE PayloadBit(bytes, 7 * n - 1)
           /\ n = MinimalLength(sdk.arg)
           /\ sdk.arg = FromInt(-1) => bytes = <<127>>
           /\ sdk.arg = FromInt(-128) => bytes = <<128, 127>>

\* 64 was encoded: its bit 6 is set, so a second byte carries the sign
C33_Witness ==
    /\ sdk.fn = "encode_leb128_i32"
    /\ sdk.arg = FromInt(64)
    /\ sdk.ret.done
    /\ sdk.ret.bytes = <<192, 0>>

\* p is a prefix of s
IsPrefix(p, s) == \E n \in 0..Len(s) : SubSeq(s, 1, n) = p

\* C34: as stated: with the filter ["x::"], namespace_matches_filter returns
\* false for every namespace that does not start with "x::", whatever the
\* function name; and in general it returns true iff some filter entry is a
\* prefix of namespace + "::" + name.
C34_FalseUnlessNamespaceStartsWithEntry ==
    sdk.fn = "namespace_matches_filter" =>
        /\ sdk.arg.filter = <<XColons>> /\ ~IsPrefix(XColons, sdk.arg.namespace)
              => ~sdk.ret
        /\ sdk.ret <=>
              \E i \in 1..Len(sdk.arg.filter) :
                  IsPrefix(sdk.arg.filter[i],
                           sdk.arg.namespace \o <<":", ":">> \o sdk.arg.name)

\* C34, amended: namespace_matches_filter returns true iff some filter entry
\* is a prefix of namespace + "::" + name; so with the filter ["x::"] it
\* returns false for every namespace other than "x" and "x:" that does not
\* start with "x::", and true for the namespaces "x" and "x:" and for those
\* that start with "x::", whatever the function name.
C34_TrueIffEntryPrefixOfFullName ==
    sdk.fn = "namespace_matches_filter" =>
        /\ sdk.ret <=>
              \E i \in 1..Len(sdk.arg.filter) :
                  IsPrefix(sdk.arg.filter[i],
                           sdk.arg.namespace \o <<":", ":">> \o sdk.arg.name)
        /\ sdk.arg.filter = <<XColons>> =>
              (sdk.ret <=> \/ sdk.arg.namespace \in {<<"x">>, <<"x", ":">>}
                           \/ IsPrefix(XColons, sdk.arg.namespace))

\* the filter ["x::"] was applied to the namespace "x", which does not start
\* with "x::", and let it through
C34_Witness ==
    /\ sdk.fn = "namespace_matches_filter"
    /\ sdk.arg.filter = <<XColons>>
    /\ sdk.arg.namespace = <<"x">>
    /\ sdk.arg.name = <<"a">>
    /\ sdk.ret

----------------------------------------------------------------------------
(* Properties of plugins with both capabilities (SpecDual) *)

\* C35: a lifecycle plugin whose module declares an import is never
\* instantiated by dispatch, whose linker defines nothing: for every event
\* the attempt ends at instantiation and no hook of the plugin is called;
\* dispatch still goes through every plugin and returns; and in
\* transform_module the same plugin is instantiated when its imports are the
\* lunatic_plugin host functions, the dual-capability plugin returning its
\* output whenever that fits into its memory.
C35_ImportingPluginNeverHooked ==
    /\ \A i \in 1..Len(d_trace) :
          Module(d_trace[i].plugin.module).imports # {} =>
              /\ d_trace[i].outcome = "instantiate_failed"
              /\ d_trace[i].hook = ""
    /\ d_pc = "returned" =>
          /\ Len(d_trace) = Len(dispatcher_plugins)
          /\ \A i \in 1..Len(d_trace) : d_trace[i].plugin = dispatcher_plugins[i]
    /\ \A i \in 1..Len(t_trace) :
          LET module == Module(t_trace[i].plugin.module)
          IN /\ module.imports \subseteq HostAbi /\ ~module.start_traps =>
                    t_trace[i].outcome # "instantiate_failed"
             /\ t_trace[i].plugin.module = "dual"
                /\ Len(t_trace[i].input) < module.pages * PageSize =>
                    /\ t_trace[i].outcome = "returned"
                    /\ t_trace[i].after = <<0>> \o t_trace[i].input

\* one dual-capability plugin: dispatch of ProcessSpawned, a hook it exports,
\* returned without calling it, and transform_module returned its output
C35_Witness ==
    /\ d_pc = "returned" /\ t_pc = "returned"
    /\ event.kind = "ProcessSpawned"
    /\ Len(d_trace) = 1 /\ Len(t_trace) = 1
    /\ d_trace[1].plugin.module = "dual"
    /\ d_trace[1].plugin = t_trace[1].plugin
    /\ d_trace[1].outcome = "instantiate_failed"
    /\ module_bytes = Ramp(MaxInput)
    /\ t_result = Ok(<<0>> \o module_bytes)

----------------------------------------------------------------------------
(* Further properties of the module-transform pipeline (SpecChain) *)

\* C37: transform_module never turns a non-empty module into an empty one:
\* whatever the chain of plugins and the input, a call that returns Ok
\* returns zero bytes only if it was given zero bytes, because a pass whose
\* output buffer is empty hands on the bytes it was given.
C37_NeverEmptiesModule ==
    /\ t_pc = "returned" /\ t_result.ok /\ t_result.bytes = <<>> =>
          module_bytes = <<>>
    /\ \A i \in 1..Len(t_trace) :
          t_trace[i].outcome \in {"returned", "skipped"}
          /\ t_trace[i].after = <<>> => t_trace[i].input = <<>>

\* a plugin wrote an output of no bytes in a call on a non-empty module, and
\* the call returned the module
C37_Witness ==
    /\ t_pc = "returned" /\ t_result.ok
    /\ module_bytes # <<>>
    /\ Len(t_trace) = 1
    /\ t_trace[1].plugin.module = "erase"
    /\ t_trace[1].writes = 1
    /\ t_trace[1].output = <<>>
    /\ t_result.bytes = module_bytes

----------------------------------------------------------------------------
(* Further properties of a transform pass (SpecHostAbi) *)

\* C36: within one pass every successful write_output(src_ptr, len) replaces
\* the output buffer by the len bytes of the plugin's memory at src_ptr,
\* whatever an earlier call left there, and nothing else in the pass changes
\* the buffer; so after several calls the buffer holds the bytes of the last
\* successful call only, a last call with len = 0 leaves it empty, and a
\* pass that ends with an empty buffer hands the bytes it was given on.
C36_WriteOutputReplaces ==
    [][LET written == /\ h_pc = "running" /\ h_pc' = "running"
                      /\ h_call.fn = "none" /\ h_call'.fn = "write_output"
                      /\ h_call'.ok
       IN /\ written =>
                /\ h_store'.output_bytes =
                      SubSeq(h_store.memory, AsUsize(h_call'.a) + 1,
                             AsUsize(h_call'.a) + AsUsize(h_call'.b))
                /\ Len(h_store'.output_bytes) = AsUsize(h_call'.b)
                /\ h_call'.b = 0 => h_store'.output_bytes = <<>>
          /\ h_pc = "running" /\ h_pc' = "running" /\ ~written =>
                h_store'.output_bytes = h_store.output_bytes
          /\ h_pc = "running" /\ h_pc' = "done" /\ h_pass'.ok =>
                /\ h_pass'.output = h_store.output_bytes
                /\ h_pass'.after = IF h_store.output_bytes = <<>>
                                   THEN h_store.input_bytes
                                   ELSE h_store.output_bytes]_vars

\* a pass over a non-empty module ended after two successful write_output
\* calls with an empty buffer, and handed the module on
C36_Witness ==
    /\ h_pc = "done"
    /\ h_store.writes = 2
    /\ h_store.input_bytes # <<>>
    /\ h_pass.ok
    /\ h_pass.output = <<>>
    /\ h_pass.after = h_store.input_bytes

\* C38: a transform plugin that cannot be instantiated, because it imports
\* something other than the three lunatic_plugin functions or because its
\* start function traps, is not skipped: its pass is the last of the call,
\* transform_module returns an error and no later plugin of the chain is
\* run; a plugin that only lacks the lunatic_transform_module export is
\* skipped and the next plugin is run on the same bytes.
C38_UninstantiableStopsChain ==
    \A i \in 1..Len(t_trace) :
        LET module == Module(t_trace[i].plugin.module)
            more == i < Len(module_transform_plugins)
        IN /\ ~(module.imports \subseteq HostAbi) \/ module.start_traps =>
                 /\ t_trace[i].outcome = "instantiate_failed"
                 /\ i = Len(t_trace)
                 /\ t_pc = "returned" /\ t_result = Err
           /\ module.imports \subseteq HostAbi /\ ~module.start_traps
              /\ TransformExport \notin DOMAIN module.exports =>
                 /\ t_trace[i].outcome = "skipped"
                 /\ t_trace[i].after = t_trace[i].input
                 /\ t_pc = "returned" /\ more =>
                       /\ Len(t_trace) > i
                       /\ t_trace[i + 1].input = t_trace[i].input

\* a chain of a plugin whose start function traps and a plugin that appends:
\* the call returned an error after one pass
C38_Witness ==
    /\ Len(module_transform_plugins) = 2
    /\ module_transform_plugins[1].module = "start_trap"
    /\ module_transform_plugins[2].module = "append"
    /\ t_pc = "returned"
    /\ t_result = Err
    /\ Len(t_trace) = 1
    /\ t_trace[1].outcome = "instantiate_failed"

----------------------------------------------------------------------------
(* Registration under a name already present (SpecRenamed) *)

\* s is an initial part of t, and what t adds are copies of plugin
ExtendedBy(s, t, plugin) ==
    /\ Len(s) <= Len(t)
    /\ \A i \in 1..Len(t) : t[i] = IF i <= Len(s) THEN s[i] ELSE plugin

\* C39: registering a plugin under a name that is already present replaces
\* the entry of the name map and leaves every capability index as it was but
\* for the new plugin added at its end: len() grows only with a name not yet
\* present, get(name) is the plugin registered last under the name, the
\* plugins registered before stay in the transform list, the host-function
\* map and the dispatcher where they were, and transform_module and dispatch
\* run every plugin of their list, the replaced ones included.
C39_DuplicateNameKeepsIndexes ==
    [][/\ \A name \in Names : next_id' = next_id + 1 /\ last_call'.info.name = name =>
            LET added == plugins'[name]
            IN /\ DOMAIN plugins' = DOMAIN plugins \cup {name}
               /\ added.id = next_id /\ added.info = last_call'.info
               /\ get(name)' = <<added>>
               /\ len' = IF name \in DOMAIN plugins THEN len ELSE len + 1
               /\ \A n \in DOMAIN plugins \ {name} : plugins'[n] = plugins[n]
               /\ ExtendedBy(module_transform_plugins, module_transform_plugins', added)
               /\ ExtendedBy(lifecycle_plugins, lifecycle_plugins', added)
               /\ ExtendedBy(dispatcher_plugins, dispatcher_plugins', added)
               /\ \A ns \in DOMAIN host_function_plugins :
                     /\ ns \in DOMAIN host_function_plugins'
                     /\ ExtendedBy(host_function_plugins[ns],
                                   host_function_plugins'[ns], added)
       /\ t_pc' = "returned" /\ t_result'.ok =>
             /\ Len(t_trace') = Len(module_transform_plugins')
             /\ \A i \in 1..Len(t_trace') :
                   /\ t_trace'[i].plugin = module_transform_plugins'[i]
                   /\ t_trace'[i].outcome = "returned"
       /\ d_pc' = "returned" =>
             /\ Len(d_trace') = Len(dispatcher_plugins')
             /\ \A i \in 1..Len(d_trace') :
                   /\ d_trace'[i].plugin = dispatcher_plugins'[i]
                   /\ d_trace'[i].outcome = "returned"]_vars

\* a transform plugin "a" was replaced in the name map by a lifecycle plugin
\* "a": len() is 1, get("a") is the second plugin, and transform_module ran
\* the first one
C39_Witness ==
    /\ next_id = 2 /\ len = 1
    /\ get("a") = <<Plugin(1, PluginInfo("a", <<LifecycleHooks>>), "observer")>>
    /\ module_transform_plugins =
          <<Plugin(0, PluginInfo("a", <<ModuleTransform>>), "append")>>
    /\ t_pc = "returned" /\ d_pc = "returned"
    /\ module_bytes = Ramp(MaxInput)
    /\ t_result = Ok(module_bytes \o <<MaxByte>>)
    /\ Len(t_trace) = 1 /\ t_trace[1].plugin = module_transform_plugins[1]
    /\ Len(d_trace) = 1 /\ d_trace[1].plugin = plugins["a"]
    /\ d_trace[1].hook = "lunatic_on_process_spawned"

----------------------------------------------------------------------------
(* A DataMessage whose seeks stay inside the buffer (SpecBounded) *)

\* C40: when every seek goes to an offset of at most the length of the
\* buffer at that time, 0 <= read_ptr <= len(buffer) holds in every state
\* reached through writes, reads, seeks, add_resource and takes, and no read
\* returns an error: a read ends at most at the end of the buffer and leaves
\* read_ptr where it ended.
C40_ReadPtrInsideBuffer ==
    /\ 0 <= message.read_ptr
    /\ message.read_ptr <= Len(message.buffer)
    /\ io.op = "read" =>
          /\ io.ok
          /\ io.from + io.ret <= Len(message.buffer)
          /\ message.read_ptr = io.from + io.ret

\* after a seek to the end of a non-empty buffer and a resource added, a
\* read of one byte returned Ok(0)
C40_Witness ==
    /\ io.op = "read" /\ io.ok /\ io.arg = 1 /\ io.ret = 0
    /\ message.buffer # <<>>
    /\ io.written # <<>>
    /\ message.read_ptr = Len(message.buffer)
    /\ message.resources # <<>>

====
